---- MODULE Spec2Model ----
(***************************************************************************)
(* A model of scsi-rs: the wire codec of the Bulk-Only-Transport wrappers  *)
(* and SCSI commands (src/src/scsi/commands), the host block device        *)
(* (src/src/scsi/device.rs) and the target responder                       *)
(* (src/src/scsi/responder.rs).                                            *)
(*                                                                         *)
(* Byte regions are sequences of numbers 0..255; the byte at Rust index i  *)
(* is element i+1.  A fallible result is a record with field ok, and       *)
(* either val or err; an error is a record with field cause.               *)
(*                                                                         *)
(* TLC's integers have 32 bits, so a u32 is held as the integer with the   *)
(* same 32 bits (x below 2^31 as x, x from 2^31 on as x - 2^32).  This     *)
(* keeps equality and the byte encodings of every u32; the quantities the  *)
(* model compares or computes with stay below 2^31.                        *)
(***************************************************************************)
EXTENDS Integers, Sequences, FiniteSets, TLC

(***************************************************************************)
(* Bounds of the model.                                                    *)
(***************************************************************************)
\* calls of read/write made on one host handle
MaxCalls == 2
\* channel transfers of one data phase of the host (on the queues: the times
\* the host polls an empty queue)
MaxDataOps == 2
\* largest caller buffer handed to read/write on the abstract channel
MaxLen == 4
\* calls of process_command made on one target
MaxTurns == 3
\* block callbacks that return None during one target command
MaxBlocks == 2

(***************************************************************************)
(* Program constants.                                                      *)
(***************************************************************************)
D_CBW_SIGNATURE == 1128420181
D_CSW_SIGNATURE == 1396855637
COMMAND_PASSED == 0
COMMAND_FAILED == 1
PHASE_ERROR == 2
CSW_SIZE == 13
CBW_SIZE == 31
CBW_HEADER == 15
INQUIRY_MAX_ALLOC == 36
SEED_TAG == 2
TEST_BLOCK_LENGTH == 256
TEST_BLOCKS == 1024
U16 == 65536

Byte == 0..255

(***************************************************************************)
(* Errors (src/src/error.rs).                                              *)
(***************************************************************************)
ParseError == [cause |-> "ParseError"]
NonBlocksizeMultipleLengthError(actual, block_size) ==
    [cause |-> "NonBlocksizeMultipleLengthError", actual |-> actual,
     block_size |-> block_size]
UsbTransferError(direction) == [cause |-> "UsbTransferError", direction |-> direction]
FlagError(flags) == [cause |-> "FlagError", flags |-> flags]
BufferTooSmallError(expected, actual) ==
    [cause |-> "BufferTooSmallError", expected |-> expected, actual |-> actual]
UnsupportedOperationError == [cause |-> "UnsupportedOperationError"]
\* BufferTooSmallError as SliceBuffer::push_byte and pull_byte raise it,
\* naming no sizes
BufferFull == [cause |-> "BufferTooSmallError"]
InvalidDeviceError == [cause |-> "InvalidDeviceError"]
\* the call did not return: it panicked
Panic == [cause |-> "panic"]

Ok(v) == [ok |-> TRUE, val |-> v]
Err(e) == [ok |-> FALSE, err |-> e]

(***************************************************************************)
(* Byte helpers (byteorder's LE / BE readers and writers).                 *)
(***************************************************************************)
Zeros(n) == [i \in 1..n |-> 0]
Fill(n, b) == [i \in 1..n |-> b]

\* what is left of a buffer when a write to it panicked (no byte is -1)
Panicked == << -1 >>
\* what is left of a Buffer when a push_byte to it found it full and the push
\* returned BufferTooSmallError (no byte is -2)
Overfull == << -2 >>

\* buf with bytes written over it from Rust index off on; the write panics
\* (index out of bounds) when the bytes do not fit in buf[off..]
Overwrite(buf, off, bytes) ==
    IF buf = Panicked \/ off + Len(bytes) > Len(buf) THEN Panicked
    ELSE [i \in 1..Len(buf) |->
            IF i > off /\ i <= off + Len(bytes) THEN bytes[i - off] ELSE buf[i]]

\* the first n bytes of buf after dropping k
Slice(buf, k, n) == [i \in 1..n |-> buf[k + i]]

LE_write_u32(n) ==
    << n % 256, (n \div 256) % 256, (n \div 65536) % 256, (n \div 16777216) % 256 >>
BE_write_u32(n) ==
    << (n \div 16777216) % 256, (n \div 65536) % 256, (n \div 256) % 256, n % 256 >>
BE_write_u16(n) == << (n \div 256) % 256, n % 256 >>

\* the top byte of a u32, as it weighs in the 32-bit integer
Top(b) == IF b >= 128 THEN b - 256 ELSE b

LE_read_u32(buf, off) ==
    buf[off + 1] + 256 * buf[off + 2] + 65536 * buf[off + 3]
    + 16777216 * Top(buf[off + 4])
BE_read_u32(buf, off) ==
    16777216 * Top(buf[off + 1]) + 65536 * buf[off + 2] + 256 * buf[off + 3]
    + buf[off + 4]
BE_read_u16(buf, off) == 256 * buf[off + 1] + buf[off + 2]

\* a < b for two u32 (a word with bit 31 set is the larger)
U32_lt(a, b) == IF (a < 0) = (b < 0) THEN a < b ELSE b < 0

\* n / d and n % d for two u32, d # 0, as the unsigned numbers they are in
\* the code: two words below 2^31 divide as they are; a divisor with bit 31
\* set goes into n once or not at all; otherwise n >> 1 is divided and the
\* low bit of n brought back
U32_divmod(n, d) ==
    IF n >= 0 /\ d > 0 THEN [q |-> n \div d, r |-> n % d]
    ELSE IF d < 0
    THEN IF n < 0 /\ n >= d THEN [q |-> 1, r |-> n - d] ELSE [q |-> 0, r |-> n]
    ELSE IF d = 1 THEN [q |-> n, r |-> 0]
    ELSE LET half == IF n >= 0 THEN n \div 2
                     ELSE ((n + 2147483647) + 1) \div 2 + 1073741824
             bit == n % 2
             q0 == half \div d
             r0 == half % d
         IN  IF r0 >= d - r0 - bit
             THEN [q |-> 2 * q0 + 1, r |-> r0 - (d - r0 - bit)]
             ELSE [q |-> 2 * q0, r |-> r0 + r0 + bit]

\* n * m for a u32 n and a u16 m: the low 32 bits of the product, byte by
\* byte from the low byte up, and whether the product passes 32 bits
U32_mul_u16(n, m) ==
    IF n >= 0 /\ n < 32768 THEN [val |-> n * m, overflow |-> FALSE] ELSE
    LET b == BE_write_u32(n)
        t4 == b[4] * m
        t3 == b[3] * m + t4 \div 256
        t2 == b[2] * m + t3 \div 256
        t1 == b[1] * m + t2 \div 256
    IN  [val |-> BE_read_u32(<< t1 % 256, t2 % 256, t3 % 256, t4 % 256 >>, 0),
         overflow |-> t1 \div 256 > 0]

(***************************************************************************)
(* Direction and the Command Block Wrapper (commands/mod.rs).              *)
(***************************************************************************)
\* From<u8> for Direction: only bit 7 is looked at, NONE is never produced
Direction_from(flags) == IF (flags \div 128) % 2 = 0 THEN "OUT" ELSE "IN"

CommandBlockWrapper_new(data_transfer_length, direction, lun, cb_length) ==
    [tag |-> 0,
     data_transfer_length |-> data_transfer_length,
     flags |-> IF direction = "IN" THEN 128 ELSE 0,
     lun |-> lun,
     cb_length |-> cb_length,
     direction |-> direction]

\* writes 15 bytes: signature, tag, data_transfer_length (LE), flags, lun, cb_length
CommandBlockWrapper_push_to_buffer(cbw, buf) ==
    Overwrite(buf, 0,
        LE_write_u32(D_CBW_SIGNATURE) \o LE_write_u32(cbw.tag)
        \o LE_write_u32(cbw.data_transfer_length)
        \o << cbw.flags, cbw.lun, cbw.cb_length >>)

\* a CBW decoder that reports a bad signature with its bytes in reverse order
CommandBlockWrapper_pull_magic_be(buf) ==
    LET magic == LE_read_u32(buf, 0) IN
    IF Len(buf) < 4 THEN Err(Panic)
    ELSE IF magic # D_CBW_SIGNATURE THEN Err(FlagError(BE_read_u32(buf, 0)))
    ELSE IF Len(buf) < CBW_HEADER THEN Err(Panic)
    ELSE Ok([tag |-> LE_read_u32(buf, 4),
             data_transfer_length |-> LE_read_u32(buf, 8),
             flags |-> buf[13],
             lun |-> buf[14],
             cb_length |-> buf[15],
             direction |-> Direction_from(buf[13])])

\* the signature is read from the first four bytes and the rest up to Rust
\* index 14 once it has matched: a slice that ends before a byte read panics
CommandBlockWrapper_pull_from_buffer(buf) ==
    LET magic == LE_read_u32(buf, 0) IN
    IF Len(buf) < 4 THEN Err(Panic)
    ELSE IF magic # D_CBW_SIGNATURE THEN Err(FlagError(magic))
    ELSE IF Len(buf) < CBW_HEADER THEN Err(Panic)
    ELSE Ok([tag |-> LE_read_u32(buf, 4),
             data_transfer_length |-> LE_read_u32(buf, 8),
             flags |-> buf[13],
             lun |-> buf[14],
             cb_length |-> buf[15],
             direction |-> Direction_from(buf[13])])

(***************************************************************************)
(* The Command Status Wrapper (commands/mod.rs).                           *)
(***************************************************************************)
CommandStatusWrapper_default == [tag |-> 0, data_residue |-> 0, status |-> 0]

\* a CSW encoder that writes the tag with its high byte first
CommandStatusWrapper_push_tag_be(csw, buf) ==
    Overwrite(buf, 0,
        LE_write_u32(D_CSW_SIGNATURE) \o BE_write_u32(csw.tag)
        \o LE_write_u32(csw.data_residue) \o << csw.status >>)

CommandStatusWrapper_push_to_buffer(csw, buf) ==
    Overwrite(buf, 0,
        LE_write_u32(D_CSW_SIGNATURE) \o LE_write_u32(csw.tag)
        \o LE_write_u32(csw.data_residue) \o << csw.status >>)

\* a slice that ends before a byte read panics
CommandStatusWrapper_pull_from_buffer(buf) ==
    IF Len(buf) < 4 THEN Err(Panic)
    ELSE IF LE_read_u32(buf, 0) # D_CSW_SIGNATURE THEN Err(ParseError)
    ELSE IF Len(buf) < CSW_SIZE THEN Err(Panic)
    ELSE Ok([tag |-> LE_read_u32(buf, 4),
             data_residue |-> LE_read_u32(buf, 8),
             status |-> buf[13]])

(***************************************************************************)
(* Commands.  A command is a record with field kind and the fields of its  *)
(* Rust struct.                                                            *)
(***************************************************************************)
InquiryCommand_new(allocation_length) ==
    [kind |-> "Inquiry", allocation_length |-> allocation_length]
TestUnitReady_new == [kind |-> "TestUnitReady"]
ReadCapacityCommand_new == [kind |-> "ReadCapacity"]
RequestSenseCommand_new(allocation_length) ==
    [kind |-> "RequestSense", allocation_length |-> allocation_length]

\* Read10Command::new without its check of the offset
Read10Command_new_any_offset(offset, transfer_bytes, block_size) ==
    IF block_size = 0 THEN Err(Panic)
    ELSE IF U32_divmod(transfer_bytes, block_size).r # 0
    THEN Err(NonBlocksizeMultipleLengthError(transfer_bytes, block_size))
    ELSE Ok([kind |-> "Read10",
             block_address |-> U32_divmod(offset, block_size).q,
             transfer_bytes |-> transfer_bytes,
             transfer_blocks |-> U32_divmod(transfer_bytes, block_size).q % U16])

\* Read10Command::new: the length is checked before the offset; transfer_blocks
\* is the quotient cut to 16 bits.  block_size = 0 divides by zero.
Read10Command_new(offset, transfer_bytes, block_size) ==
    IF block_size = 0 THEN Err(Panic)
    ELSE IF U32_divmod(transfer_bytes, block_size).r # 0
    THEN Err(NonBlocksizeMultipleLengthError(transfer_bytes, block_size))
    ELSE IF U32_divmod(offset, block_size).r # 0
    THEN Err(NonBlocksizeMultipleLengthError(offset, block_size))
    ELSE Ok([kind |-> "Read10",
             block_address |-> U32_divmod(offset, block_size).q,
             transfer_bytes |-> transfer_bytes,
             transfer_blocks |-> U32_divmod(transfer_bytes, block_size).q % U16])

\* Write10Command::new: transfer_bytes = 0 is refused before the remainder is taken
Write10Command_new(offset, transfer_bytes, block_size) ==
    IF transfer_bytes = 0
    THEN Err(NonBlocksizeMultipleLengthError(transfer_bytes, block_size))
    ELSE IF block_size = 0 THEN Err(Panic)
    ELSE IF U32_divmod(transfer_bytes, block_size).r # 0
    THEN Err(NonBlocksizeMultipleLengthError(transfer_bytes, block_size))
    ELSE IF U32_divmod(offset, block_size).r # 0
    THEN Err(NonBlocksizeMultipleLengthError(offset, block_size))
    ELSE Ok([kind |-> "Write10",
             block_address |-> U32_divmod(offset, block_size).q,
             block_size |-> block_size,
             transfer_blocks |-> U32_divmod(transfer_bytes, block_size).q % U16])

opcode(kind) ==
    CASE kind = "Inquiry" -> 18
      [] kind = "TestUnitReady" -> 0
      [] kind = "ReadCapacity" -> 37
      [] kind = "RequestSense" -> 3
      [] kind = "Read10" -> 40
      [] kind = "Write10" -> 42

length(kind) ==
    CASE kind = "Inquiry" -> 6
      [] kind = "TestUnitReady" -> 6
      [] kind = "ReadCapacity" -> 16
      [] kind = "RequestSense" -> 6
      [] kind = "Read10" -> 10
      [] kind = "Write10" -> 10

\* Command::wrapper of each command; the tag is always the 0 of
\* CommandBlockWrapper::new.  block_size * transfer_blocks of a Write10 may
\* pass 32 bits (the fields are public): a build with overflow checks
\* panics there, a build without them keeps the low 32 bits
wrapper(cmd, overflow_checks) ==
    CASE cmd.kind = "Inquiry" ->
            CommandBlockWrapper_new(cmd.allocation_length, "IN", 0, length("Inquiry"))
      [] cmd.kind = "TestUnitReady" -> CommandBlockWrapper_new(0, "NONE", 0, 6)
      [] cmd.kind = "ReadCapacity" ->
            CommandBlockWrapper_new(8, "IN", 0, length("ReadCapacity"))
      [] cmd.kind = "RequestSense" ->
            CommandBlockWrapper_new(0, "NONE", 0, length("RequestSense"))
      [] cmd.kind = "Read10" ->
            CommandBlockWrapper_new(cmd.transfer_bytes, "IN", 0, length("Read10"))
      [] cmd.kind = "Write10" ->
            LET product == U32_mul_u16(cmd.block_size, cmd.transfer_blocks)
            IN  IF overflow_checks /\ product.overflow THEN Panic
                ELSE CommandBlockWrapper_new(product.val, "OUT", 0, length("Write10"))

\* the bytes each command writes after the 15-byte header
command_block(cmd) ==
    CASE cmd.kind = "Inquiry" -> << opcode("Inquiry"), 0, 0, 0, cmd.allocation_length >>
      [] cmd.kind = "TestUnitReady" -> << opcode("TestUnitReady") >>
      [] cmd.kind = "ReadCapacity" -> << opcode("ReadCapacity") >>
      [] cmd.kind = "RequestSense" ->
            << opcode("RequestSense"), 0, 0, 0, cmd.allocation_length >>
      [] cmd.kind = "Read10" ->
            << opcode("Read10"), 0 >> \o BE_write_u32(cmd.block_address) \o << 0 >>
            \o BE_write_u16(cmd.transfer_blocks) \o << 0 >>
      [] cmd.kind = "Write10" ->
            << opcode("Write10"), 0 >> \o BE_write_u32(cmd.block_address) \o << 0 >>
            \o BE_write_u16(cmd.transfer_blocks) \o << 0 >>

\* push_to_buffer of a command: the header, then the command block at byte 15.
\* REQUEST SENSE pushes its bytes one by one through Buffer::push_byte, which
\* returns an error once the buffer is full; the others index a slice
Command_push_to_buffer(cmd, buf, overflow_checks) ==
    LET cbw == wrapper(cmd, overflow_checks)
    IN  IF cbw = Panic THEN Panicked
        ELSE IF cmd.kind = "RequestSense" /\ Len(buf) < CBW_HEADER + Len(command_block(cmd))
        THEN Overfull
        ELSE Overwrite(CommandBlockWrapper_push_to_buffer(cbw, buf),
                       CBW_HEADER, command_block(cmd))

\* the number push_to_buffer returns
Command_pushed(cmd) == CBW_HEADER + Len(command_block(cmd))

\* an INQUIRY decoder that takes allocation_length from the byte after the
\* opcode
InquiryCommand_pull_length_first(buf) ==
    LET header == CommandBlockWrapper_pull_from_buffer(buf)
        allocation_length_with_padding == BE_read_u32(buf, 16)
    IN  IF ~header.ok THEN header
        ELSE IF Len(buf) < 16 THEN Err(Panic)
        ELSE IF buf[16] # opcode("Inquiry") THEN Err(ParseError)
        ELSE IF Len(buf) < 20 THEN Err(Panic)
        ELSE IF \/ (-1 - header.val.data_transfer_length)
                      = allocation_length_with_padding
                \/ header.val.direction # "IN"
                \/ header.val.cb_length # length("Inquiry")
        THEN Err(ParseError)
        ELSE Ok(InquiryCommand_new(buf[17]))

InquiryCommand_pull_from_buffer(buf) ==
    LET header == CommandBlockWrapper_pull_from_buffer(buf)
        allocation_length_with_padding == BE_read_u32(buf, 16)
    IN  IF ~header.ok THEN header
        ELSE IF Len(buf) < 16 THEN Err(Panic)
        ELSE IF buf[16] # opcode("Inquiry") THEN Err(ParseError)
        ELSE IF Len(buf) < 20 THEN Err(Panic)
        ELSE IF \/ (-1 - header.val.data_transfer_length)
                      = allocation_length_with_padding
                \/ header.val.direction # "IN"
                \/ header.val.cb_length # length("Inquiry")
        THEN Err(ParseError)
        ELSE Ok(InquiryCommand_new(allocation_length_with_padding % 256))

\* the opcode is read at Rust index 15 before the header is looked at
ReadCapacityCommand_pull_from_buffer(buf) ==
    LET w == CommandBlockWrapper_pull_from_buffer(buf)
    IN  IF ~w.ok THEN w
        ELSE IF Len(buf) < 16 THEN Err(Panic)
        ELSE IF \/ w.val.data_transfer_length # 8
                \/ w.val.direction # "IN"
                \/ w.val.cb_length # length("ReadCapacity")
                \/ buf[16] # opcode("ReadCapacity")
        THEN Err(ParseError)
        ELSE Ok(ReadCapacityCommand_new)

\* the opcode is looked for at Rust index 16, not 15
TestUnitReady_pull_from_buffer(buf) ==
    LET w == CommandBlockWrapper_pull_from_buffer(buf)
    IN  IF ~w.ok THEN w
        ELSE IF \/ w.val.data_transfer_length # 0
                \/ ~(w.val.direction = "OUT" \/ w.val.direction = "NONE")
                \/ w.val.cb_length # length("TestUnitReady")
        THEN Err(ParseError)
        ELSE IF Len(buf) < 17 THEN Err(Panic)
        ELSE IF buf[17] # opcode("TestUnitReady") THEN Err(ParseError)
        ELSE Ok(TestUnitReady_new)

\* the opcode is pulled as a little-endian u32 of bytes 15..19, byte by
\* byte through Buffer::pull_byte, which returns an error once the buffer is
\* read to its end
RequestSenseCommand_pull_from_buffer(buf) ==
    LET w == CommandBlockWrapper_pull_from_buffer(buf)
    IN  IF ~w.ok THEN w
        ELSE IF \/ w.val.data_transfer_length # 0
                \/ ~(w.val.direction = "NONE" \/ w.val.direction = "OUT")
                \/ w.val.cb_length # length("RequestSense")
        THEN Err(ParseError)
        ELSE IF Len(buf) < 19 THEN Err(BufferFull)
        ELSE IF LE_read_u32(buf, 15) # opcode("RequestSense") THEN Err(ParseError)
        ELSE IF Len(buf) < 20 THEN Err(BufferFull)
        ELSE Ok(RequestSenseCommand_new(buf[20]))

\* a READ(10) decoder that reads block_address lowest byte first
Read10Command_pull_address_le(buf) ==
    LET w == CommandBlockWrapper_pull_from_buffer(buf)
    IN  IF ~w.ok THEN w
        ELSE IF w.val.direction # "IN" \/ w.val.cb_length # length("Read10")
        THEN Err(ParseError)
        ELSE IF Len(buf) < 16 THEN Err(Panic)
        ELSE IF buf[16] # opcode("Read10") THEN Err(ParseError)
        ELSE IF Len(buf) < 25 THEN Err(Panic)
        ELSE Ok([kind |-> "Read10",
                 block_address |-> LE_read_u32(buf, 17),
                 transfer_bytes |-> w.val.data_transfer_length,
                 transfer_blocks |-> BE_read_u16(buf, 22)])

\* the opcode is read at Rust index 15, and the bytes up to index 24 after
\* it, the three bytes of padding among them: a slice that ends before one
\* of them panics
Read10Command_pull_from_buffer(buf) ==
    LET w == CommandBlockWrapper_pull_from_buffer(buf)
    IN  IF ~w.ok THEN w
        ELSE IF w.val.direction # "IN" \/ w.val.cb_length # length("Read10")
        THEN Err(ParseError)
        ELSE IF Len(buf) < 16 THEN Err(Panic)
        ELSE IF buf[16] # opcode("Read10") THEN Err(ParseError)
        ELSE IF Len(buf) < 25 THEN Err(Panic)
        ELSE Ok([kind |-> "Read10",
                 block_address |-> BE_read_u32(buf, 17),
                 transfer_bytes |-> w.val.data_transfer_length,
                 transfer_blocks |-> BE_read_u16(buf, 22)])

\* block_size is data_transfer_length / transfer_blocks: 0 blocks divide by zero
Write10Command_pull_from_buffer(buf) ==
    LET w == CommandBlockWrapper_pull_from_buffer(buf)
        transfer_blocks == BE_read_u16(buf, 22)
    IN  IF ~w.ok THEN w
        ELSE IF w.val.direction # "OUT" \/ w.val.cb_length # length("Write10")
        THEN Err(ParseError)
        ELSE IF Len(buf) < 16 THEN Err(Panic)
        ELSE IF buf[16] # opcode("Write10") THEN Err(ParseError)
        ELSE IF Len(buf) < 24 THEN Err(Panic)
        ELSE IF transfer_blocks = 0 THEN Err(Panic)
        ELSE Ok([kind |-> "Write10",
                 block_address |-> BE_read_u32(buf, 17),
                 block_size |-> U32_divmod(w.val.data_transfer_length,
                                           transfer_blocks).q,
                 transfer_blocks |-> transfer_blocks])

\* a decoder that takes a command with an opcode it does not know for a
\* TEST UNIT READY
ScsiCommand_pull_any_opcode(buf) ==
    LET op == buf[16] IN
    IF Len(buf) < 16 THEN Err(Panic)
    ELSE IF op = opcode("Inquiry") THEN InquiryCommand_pull_from_buffer(buf)
    ELSE IF op = opcode("Read10") THEN Read10Command_pull_from_buffer(buf)
    ELSE IF op = opcode("ReadCapacity") THEN ReadCapacityCommand_pull_from_buffer(buf)
    ELSE IF op = opcode("RequestSense") THEN RequestSenseCommand_pull_from_buffer(buf)
    ELSE IF op = opcode("Write10") THEN Write10Command_pull_from_buffer(buf)
    ELSE TestUnitReady_pull_from_buffer(buf)

\* ScsiCommand::pull_from_buffer: the decoder is chosen by byte 15
ScsiCommand_pull_from_buffer(buf) ==
    LET op == buf[16] IN
    IF Len(buf) < 16 THEN Err(Panic)
    ELSE IF op = opcode("Inquiry") THEN InquiryCommand_pull_from_buffer(buf)
    ELSE IF op = opcode("Read10") THEN Read10Command_pull_from_buffer(buf)
    ELSE IF op = opcode("ReadCapacity") THEN ReadCapacityCommand_pull_from_buffer(buf)
    ELSE IF op = opcode("RequestSense") THEN RequestSenseCommand_pull_from_buffer(buf)
    ELSE IF op = opcode("TestUnitReady") THEN TestUnitReady_pull_from_buffer(buf)
    ELSE IF op = opcode("Write10") THEN Write10Command_pull_from_buffer(buf)
    ELSE Err(UnsupportedOperationError)

(***************************************************************************)
(* Responses.                                                              *)
(***************************************************************************)
InquiryResponse_default ==
    [device_qualifier |-> 0, device_type |-> 0, removable_flags |-> 0,
     spc_version |-> 0, response_format |-> 0]

\* an INQUIRY response decoded with the qualifier taken from the top two bits
InquiryResponse_pull_two_bits(buf) ==
    IF Len(buf) < 4 THEN Err(Panic)
    ELSE Ok([device_qualifier |-> (buf[1] \div 64) * 64,
             device_type |-> buf[1] % 32,
             removable_flags |-> buf[2],
             spc_version |-> buf[3],
             response_format |-> buf[4]])

\* bt & 0xe0 and bt & 0x1f; a slice of fewer than four bytes panics
InquiryResponse_pull_from_buffer(buf) ==
    IF Len(buf) < 4 THEN Err(Panic)
    ELSE Ok([device_qualifier |-> (buf[1] \div 32) * 32,
             device_type |-> buf[1] % 32,
             removable_flags |-> buf[2],
             spc_version |-> buf[3],
             response_format |-> buf[4]])

\* bitwise or of two bytes
BitOr(a, b) ==
    LET bit(x, i) == (x \div (2 ^ i)) % 2
    IN  bit(a, 0) + bit(b, 0) - bit(a, 0) * bit(b, 0)
        + 2 * (bit(a, 1) + bit(b, 1) - bit(a, 1) * bit(b, 1))
        + 4 * (bit(a, 2) + bit(b, 2) - bit(a, 2) * bit(b, 2))
        + 8 * (bit(a, 3) + bit(b, 3) - bit(a, 3) * bit(b, 3))
        + 16 * (bit(a, 4) + bit(b, 4) - bit(a, 4) * bit(b, 4))
        + 32 * (bit(a, 5) + bit(b, 5) - bit(a, 5) * bit(b, 5))
        + 64 * (bit(a, 6) + bit(b, 6) - bit(a, 6) * bit(b, 6))
        + 128 * (bit(a, 7) + bit(b, 7) - bit(a, 7) * bit(b, 7))

\* an INQUIRY response encoder that leaves the qualifier out of byte 0
InquiryResponse_push_type_only(r, buf) ==
    Overwrite(buf, 0,
        << r.device_type, r.removable_flags, r.spc_version, r.response_format >>)

InquiryResponse_push_to_buffer(r, buf) ==
    Overwrite(buf, 0,
        << BitOr(r.device_qualifier, r.device_type), r.removable_flags,
           r.spc_version, r.response_format >>)

\* a READ CAPACITY response decoded with the block length taken from the
\* first four bytes
ReadCapacityResponse_pull_first_word(buf) ==
    IF Len(buf) < 8 THEN Err(Panic)
    ELSE Ok([logical_block_address |-> BE_read_u32(buf, 0),
             block_length |-> BE_read_u32(buf, 0)])

ReadCapacityResponse_pull_from_buffer(buf) ==
    IF Len(buf) < 8 THEN Err(Panic)
    ELSE Ok([logical_block_address |-> BE_read_u32(buf, 0),
             block_length |-> BE_read_u32(buf, 4)])

\* a READ CAPACITY response encoder that writes the block length first
ReadCapacityResponse_push_length_first(r, buf) ==
    Overwrite(buf, 0,
        BE_write_u32(r.block_length) \o BE_write_u32(r.logical_block_address))

ReadCapacityResponse_push_to_buffer(r, buf) ==
    Overwrite(buf, 0,
        BE_write_u32(r.logical_block_address) \o BE_write_u32(r.block_length))

(***************************************************************************)
(* The host block device (scsi/device.rs).                                 *)
(*                                                                         *)
(* dev holds the fields of ScsiBlockDevice and whether the handle exists;  *)
(* call holds the running call: its name, the command in flight, the next  *)
(* channel operation (phase) and its locals; user is the caller's buffer.  *)
(* A host call is suspended exactly at its channel operations, so there is *)
(* one step per channel operation, taking the operation's result.          *)
(*                                                                         *)
(* History kept for the properties: arg is what the caller passed to the   *)
(* last read or write (and whether the call before it was a read asked to  *)
(* move nothing), ops the channel operations of the command in flight      *)
(* (or of the last one) with what each returned, cbwLog every CBW handed   *)
(* to out_transfer since the start, ncalls the read/write calls made.      *)
(***************************************************************************)
VARIABLES dev, call, user, arg, ops, cbwLog, ncalls, wire

\* The target (scsi/responder.rs): tgt is the frame of process_command (its
\* position, its 31-byte command_buffer, the CBW and command it decoded, the
\* block buffer, the CSW a callback returned, and what the last call
\* returned), resp the state of the responder behind it, tlog the channel
\* operations and responder callbacks of the call in progress (or of the
\* last one) in the order they were made, turns the calls of process_command
\* made.  h2d and d2h are the two byte queues of a
\* TestDualChannel pair, done the host calls that have returned (when a test
\* drives the target itself, the commands it has put on the channel),
\* clearing the handle ("forward" the host's, "reversed" the target's) whose
\* clear() has emptied its send queue and not yet its receive queue, "none"
\* when no clear() is under way.
VARIABLES tgt, resp, tlog, turns, h2d, d2h, done, clearing

\* A test of the wire codec (as test_cbw and test_csw in commands/mod.rs and
\* the test of each command): input is the value the test encodes (with the
\* arguments it was constructed from) and the byte its buffer is filled with
\* beforehand, buff the test's buffer, pushed what push_to_buffer returned,
\* patch the bytes of the buffer changed between the push and the pull (with
\* the buffer as it was pushed), and pulled what pull_from_buffer then
\* returned.
VARIABLES input, buff, pushed, patch, pulled

codecVars == << input, buff, pushed, patch, pulled >>

targetVars == << tgt, resp, tlog, turns >>
queueVars == << h2d, d2h, done, clearing >>

hostVars == << dev, call, user, arg, ops, cbwLog, ncalls >>

\* a Buffer: its capacity and the bytes written to it
Buffer_new(cap) == [cap |-> cap, data |-> << >>]
\* the error a buffer returns from a clear() that fails.  The Buffer trait
\* leaves the error to the buffer's implementer; this one is returned by
\* nothing else, neither by the host nor by a channel
BufferFault == BufferTooSmallError(0, 0)
\* Buffer::clear, which the trait declares fallible and the caller's buffer
\* type implements: it returns an error, or empties the buffer.  The clear()
\* calls a step of the host has still to make are numbered from 1 in the
\* order they run; failing is the number of the one that returns Err (0 or
\* less: none of them)
clear(b, failing) ==
    IF failing = 1 THEN Err(BufferFault) ELSE Ok([b EXCEPT !.data = << >>])
size(b) == Len(b.data)
capacity(b) == b.cap

None == [some |-> FALSE]
Some(v) == [some |-> TRUE, val |-> v]

NoCmd == [kind |-> "none"]
IdleCall ==
    [name |-> "none", stage |-> "none", phase |-> "idle", cmd |-> NoCmd,
     acc |-> 0, acc_hi |-> 0, ndata |-> 0, prev_tag |-> 0, last |-> "none", result |-> None]

HostState == [dev |-> dev, call |-> call, user |-> user]

\* the running call returns r; a failed new leaves no handle, a panic ends
\* the program
Return(h, r) ==
    [h EXCEPT !.call.name = "none",
              !.call.last = h.call.name,
              !.call.phase = "idle",
              !.call.result = Some(r),
              !.dev.state =
                  IF ~r.ok /\ r.err = Panic THEN "panicked"
                  ELSE IF h.call.name = "new" THEN (IF r.ok THEN "ok" ELSE "failed")
                  ELSE h.dev.state]

\* push_command up to its out_transfer: the size check, then the command
\* serialized into the cleared scratch buffer and padded with 0 to 31 bytes.
\* new, read and write hand it commands their constructors made, whose
\* wrapper is the same in every build (block_size times the quotient cut to
\* 16 bits never passes transfer_bytes), so they name no build
push_command_prepare(h, cmd, overflow_checks, failing) ==
    IF capacity(h.dev.scratch_buffer) < CBW_SIZE
    THEN Return(h, Err(BufferTooSmallError(CBW_SIZE, capacity(h.dev.scratch_buffer))))
    ELSE LET cleared == clear(h.dev.scratch_buffer, failing)
             pushed_bytes ==
                 Command_push_to_buffer(cmd, Zeros(CBW_SIZE), overflow_checks)
         IN  IF ~cleared.ok THEN Return(h, cleared)
             ELSE IF pushed_bytes = Panicked THEN Return(h, Err(Panic))
             ELSE [h EXCEPT !.call.cmd = cmd,
                            !.call.phase = "cbw",
                            !.call.acc = 0,
                            !.call.acc_hi = 0,
                            !.call.ndata = 0,
                            !.dev.scratch_buffer.data = pushed_bytes]

\* command.wrapper() as transfer_command_raw takes it once push_command has
\* returned: a product that passes 32 bits has panicked in push_command
\* under overflow checks, and is cut to 32 bits without them
command_wrapper(cmd) == wrapper(cmd, FALSE)

\* the data phase is over: transfer_command_raw clears the scratch buffer
\* and read_csw, up to its in_transfer, checks its capacity, clears it again
\* and pads it with 0 until 13 bytes of room are left.  A clear() that fails
\* ends the call with the buffer's error, and no CSW is asked for
read_csw_prepare(h, failing) ==
    LET cleared == clear(h.dev.scratch_buffer, failing)
        h1 == [h EXCEPT !.dev.scratch_buffer = cleared.val]
        cleared_again == clear(h1.dev.scratch_buffer, failing - 1)
    IN  IF ~cleared.ok THEN Return(h, cleared)
        ELSE IF capacity(h1.dev.scratch_buffer) < CSW_SIZE
        THEN Return(h1, Err(BufferTooSmallError(CSW_SIZE,
                                                capacity(h1.dev.scratch_buffer))))
        ELSE IF ~cleared_again.ok THEN Return(h1, cleared_again)
        ELSE [h1 EXCEPT !.call.phase = "csw",
                        !.dev.scratch_buffer.data =
                            Zeros(capacity(h.dev.scratch_buffer) - CSW_SIZE)]

\* a push_command that does not look at the count the channel accepted
push_command_any_count(h, res, failing) ==
    IF ~res.ok THEN Return(h, res)
    ELSE IF command_wrapper(h.call.cmd).data_transfer_length # 0
         THEN [h EXCEPT !.call.phase = "data"]
         ELSE read_csw_prepare(h, failing)

\* push_command after its out_transfer returned res, and the choice of the
\* data phase in transfer_command_raw
push_command(h, res, failing) ==
    IF ~res.ok THEN Return(h, res)
    ELSE IF res.val # CBW_SIZE THEN Return(h, Err(UsbTransferError("Out")))
    ELSE IF command_wrapper(h.call.cmd).data_transfer_length # 0
         THEN [h EXCEPT !.call.phase = "data"]
         ELSE read_csw_prepare(h, failing)

\* the buffer the IN data phase fills: dest in read, in_buffer otherwise
InTarget(h) == IF h.call.name = "read" THEN h.user ELSE h.dev.in_buffer
\* the buffer the OUT data phase sends: src in write, out_buffer otherwise
OutSource(h) == IF h.call.name = "write" THEN h.user ELSE h.dev.out_buffer

\* a + b for two u32: the low 32 bits of the sum and the bit carried out
U32_add(a, b) ==
    IF a >= 0 /\ b >= 0
    THEN [carry |-> 0,
          word |-> IF a > 2147483647 - b
                   THEN ((a - 2147483647 - 1) + b) - 2147483647 - 1
                   ELSE a + b]
    ELSE IF a < 0 /\ b < 0
    THEN [carry |-> 1,
          word |-> IF a >= (-2147483647 - 1) - b THEN a + b
                   ELSE (a + 2147483647 + 1) + (b + 2147483647 + 1)]
    ELSE [carry |-> IF a + b >= 0 THEN 1 ELSE 0, word |-> a + b]

\* read += n and written += n of transfer_command_raw.  The count is a usize
\* (of 64 bits): acc holds its low 32 bits as a u32, acc_hi what lies above
\* them; n is the count one transfer returned, below 2^32, as a u32
Counted(h, n) ==
    LET sum == U32_add(h.call.acc, n)
    IN  [h EXCEPT !.call.acc = sum.word,
                  !.call.acc_hi = h.call.acc_hi + sum.carry,
                  !.call.ndata = h.call.ndata + 1]

\* read < transfer_length as usize, and written likewise
CountBelow(h, transfer_length) ==
    h.call.acc_hi = 0 /\ U32_lt(h.call.acc, transfer_length)

\* the usize a call returns as its count: below 2^32 the u32 it is, else its
\* two words
Usize(hi, lo) == IF hi = 0 THEN lo ELSE [hi |-> hi, lo |-> lo]

\* an IN data phase that makes one in_transfer whatever it returns
data_in_once(h, res, failing) ==
    IF ~res.ok THEN Return(h, res)
    ELSE LET h1 == IF h.call.name = "read"
                   THEN [h EXCEPT !.user.data = h.user.data \o res.val]
                   ELSE [h EXCEPT !.dev.in_buffer.data =
                                      h.dev.in_buffer.data \o res.val]
         IN  read_csw_prepare(Counted(h1, Len(res.val)), failing)

\* an IN data phase that asks the channel again after an error
data_in_retry(h, res, failing) ==
    IF ~res.ok THEN [h EXCEPT !.call.ndata = h.call.ndata + 1]
    ELSE LET h1 == IF h.call.name = "read"
                   THEN [h EXCEPT !.user.data = h.user.data \o res.val]
                   ELSE [h EXCEPT !.dev.in_buffer.data =
                                      h.dev.in_buffer.data \o res.val]
             h2 == Counted(h1, Len(res.val))
         IN  IF CountBelow(h2, command_wrapper(h.call.cmd).data_transfer_length)
             THEN [h2 EXCEPT !.call.phase = "data"]
             ELSE read_csw_prepare(h2, failing)

\* an IN data phase whose loop goes on while read <= transfer_length
data_in_one_more(h, res, failing) ==
    IF ~res.ok THEN Return(h, res)
    ELSE LET h1 == IF h.call.name = "read"
                   THEN [h EXCEPT !.user.data = h.user.data \o res.val]
                   ELSE [h EXCEPT !.dev.in_buffer.data =
                                      h.dev.in_buffer.data \o res.val]
             h2 == Counted(h1, Len(res.val))
         IN  IF \/ CountBelow(h2, command_wrapper(h.call.cmd).data_transfer_length)
                \/ /\ h2.call.acc_hi = 0
                   /\ h2.call.acc = command_wrapper(h.call.cmd).data_transfer_length
             THEN [h2 EXCEPT !.call.phase = "data"]
             ELSE read_csw_prepare(h2, failing)

\* one in_transfer of the IN data phase returned res (the bytes it put in
\* the buffer); the loop goes on while read < transfer_length
data_in(h, res, failing) ==
    IF ~res.ok THEN Return(h, res)
    ELSE LET h1 == IF h.call.name = "read"
                   THEN [h EXCEPT !.user.data = h.user.data \o res.val]
                   ELSE [h EXCEPT !.dev.in_buffer.data =
                                      h.dev.in_buffer.data \o res.val]
             h2 == Counted(h1, Len(res.val))
         IN  IF CountBelow(h2, command_wrapper(h.call.cmd).data_transfer_length)
             THEN [h2 EXCEPT !.call.phase = "data"]
             ELSE read_csw_prepare(h2, failing)

\* one out_transfer of the OUT data phase returned res (the count accepted);
\* the loop goes on while written < transfer_length
data_out(h, res, failing) ==
    IF ~res.ok THEN Return(h, res)
    ELSE LET h1 == Counted(h, res.val)
         IN  IF CountBelow(h1, command_wrapper(h.call.cmd).data_transfer_length)
             THEN [h1 EXCEPT !.call.phase = "data"]
             ELSE read_csw_prepare(h1, failing)

\* n + 1 on a u32 that wraps
U32_wrapping_succ(n) == IF n = 2147483647 THEN -2147483647 - 1 ELSE n + 1

\* in_buffer.clear()?; out_buffer.clear()?; scratch_buffer.clear()?, as new
\* runs them before each of its three commands: the three buffers emptied,
\* or new returned with the error of the first clear() that failed
clear_buffers(h, failing) ==
    LET in_cleared == clear(h.dev.in_buffer, failing)
        h1 == [h EXCEPT !.dev.in_buffer = in_cleared.val]
        out_cleared == clear(h.dev.out_buffer, failing - 1)
        h2 == [h1 EXCEPT !.dev.out_buffer = out_cleared.val]
        scratch_cleared == clear(h.dev.scratch_buffer, failing - 2)
    IN  IF ~in_cleared.ok THEN Return(h, in_cleared)
        ELSE IF ~out_cleared.ok THEN Return(h1, out_cleared)
        ELSE IF ~scratch_cleared.ok THEN Return(h2, scratch_cleared)
        ELSE [h2 EXCEPT !.dev.scratch_buffer = scratch_cleared.val]

\* what the call does once its command has passed. prev_tag + 1 of read and
\* write overflows on tag 0xFFFFFFFF: a build with overflow checks (the dev
\* and test profiles) panics there, a build without them (the release
\* profile) wraps to 0.  new goes on to its next command once it has
\* cleared its buffers, and returns the error of a clear() that fails
command_passed(h, csw, overflow_checks, failing) ==
    CASE h.call.name = "new" /\ h.call.stage = "inquiry" ->
            LET inquiry_resp == InquiryResponse_pull_from_buffer(h.dev.in_buffer.data)
                h1 == clear_buffers(h, failing)
            IN  IF ~inquiry_resp.ok THEN Return(h, inquiry_resp)
                ELSE IF \/ inquiry_resp.val.device_qualifier # 0
                        \/ inquiry_resp.val.device_type # 0
                THEN Return(h, Err(InvalidDeviceError))
                ELSE IF h1.call.name = "none" THEN h1
                ELSE push_command_prepare([h1 EXCEPT !.call.stage = "tur"],
                                          TestUnitReady_new, overflow_checks,
                                          failing - 3)
      [] h.call.name = "new" /\ h.call.stage = "tur" ->
            LET h1 == clear_buffers(h, failing)
            IN  IF h1.call.name = "none" THEN h1
                ELSE push_command_prepare([h1 EXCEPT !.call.stage = "readcap"],
                                          ReadCapacityCommand_new, overflow_checks,
                                          failing - 3)
      [] h.call.name = "new" /\ h.call.stage = "readcap" ->
            LET capacity_resp ==
                    ReadCapacityResponse_pull_from_buffer(h.dev.in_buffer.data)
            IN  IF ~capacity_resp.ok THEN Return(h, capacity_resp)
                ELSE Return([h EXCEPT !.dev.block_size =
                                          capacity_resp.val.block_length,
                                      !.dev.prev_csw =
                                          Some([csw EXCEPT !.tag = SEED_TAG])],
                            Ok(0))
      [] h.call.name \in {"read", "write"} ->
            IF overflow_checks /\ h.call.prev_tag = -1
            THEN Return(h, Err(Panic))
            ELSE Return([h EXCEPT !.dev.prev_csw =
                                      Some([csw EXCEPT !.tag =
                                          U32_wrapping_succ(h.call.prev_tag)])],
                        Ok(Usize(h.call.acc_hi, h.call.acc)))

\* a host that does not look at the status of the CSW
read_csw_any_status(h, res, overflow_checks, failing) ==
    IF ~res.ok THEN Return(h, res)
    ELSE LET h1 == [h EXCEPT !.dev.scratch_buffer.data =
                                 h.dev.scratch_buffer.data \o res.val]
             csw == CommandStatusWrapper_pull_from_buffer(res.val)
         IN  IF Len(res.val) # CSW_SIZE THEN Return(h1, Err(UsbTransferError("In")))
             ELSE IF ~csw.ok THEN Return(h1, csw)
             ELSE IF csw.val.tag # command_wrapper(h.call.cmd).tag
                  THEN Return(h1, Err(ParseError))
             ELSE command_passed(h1, csw.val, overflow_checks, failing)

\* a host that looks at the status of the CSW before its tag
read_csw_status_first(h, res, overflow_checks, failing) ==
    IF ~res.ok THEN Return(h, res)
    ELSE LET h1 == [h EXCEPT !.dev.scratch_buffer.data =
                                 h.dev.scratch_buffer.data \o res.val]
             csw == CommandStatusWrapper_pull_from_buffer(res.val)
         IN  IF Len(res.val) # CSW_SIZE THEN Return(h1, Err(UsbTransferError("In")))
             ELSE IF ~csw.ok THEN Return(h1, csw)
             ELSE IF csw.val.status # COMMAND_PASSED
                  THEN Return(h1, Err(FlagError(csw.val.status)))
             ELSE IF csw.val.tag # command_wrapper(h.call.cmd).tag
                  THEN Return(h1, Err(ParseError))
             ELSE command_passed(h1, csw.val, overflow_checks, failing)

\* read_csw after its in_transfer returned res (the bytes received), then the
\* reconciliation of transfer_command_raw: the tag first, then the status
read_csw(h, res, overflow_checks, failing) ==
    IF ~res.ok THEN Return(h, res)
    ELSE LET h1 == [h EXCEPT !.dev.scratch_buffer.data =
                                 h.dev.scratch_buffer.data \o res.val]
             csw == CommandStatusWrapper_pull_from_buffer(res.val)
         IN  IF Len(res.val) # CSW_SIZE THEN Return(h1, Err(UsbTransferError("In")))
             ELSE IF ~csw.ok THEN Return(h1, csw)
             ELSE IF csw.val.tag # command_wrapper(h.call.cmd).tag
                  THEN Return(h1, Err(ParseError))
             ELSE IF csw.val.status # COMMAND_PASSED
                  THEN Return(h1, Err(FlagError(csw.val.status)))
             ELSE command_passed(h1, csw.val, overflow_checks, failing)

\* ScsiBlockDevice::new up to the first channel operation
new(h, failing) ==
    LET h1 == clear_buffers(
                  [h EXCEPT !.call = [IdleCall EXCEPT !.name = "new",
                                                      !.stage = "inquiry"]],
                  failing)
    IN  IF h1.call.name = "none" THEN h1
        ELSE push_command_prepare(
                 h1,
                 InquiryCommand_new(
                     IF capacity(h.dev.in_buffer) < INQUIRY_MAX_ALLOC
                     THEN capacity(h.dev.in_buffer) ELSE INQUIRY_MAX_ALLOC),
                 TRUE, failing - 3)

\* a read that reports the capacity of dest, not the room left in it, when it
\* refuses a length
read_reports_capacity(h, offset, dest, failing) ==
    LET prev_tag == IF h.dev.prev_csw.some THEN h.dev.prev_csw.val.tag ELSE 0
        h0 == [h EXCEPT !.call = [IdleCall EXCEPT !.name = "read", !.stage = "io",
                                                  !.prev_tag = prev_tag],
                        !.user = dest,
                        !.dev.prev_csw = None]
        out_cleared == clear(h.dev.out_buffer, failing)
        scratch_cleared == clear(h.dev.scratch_buffer, failing - 1)
        h1 == [h0 EXCEPT !.dev.out_buffer = out_cleared.val,
                         !.dev.scratch_buffer = scratch_cleared.val]
        remaining == capacity(dest) - size(dest)
        read_command == Read10Command_new(offset, remaining, h.dev.block_size)
    IN  IF ~out_cleared.ok THEN Return(h0, out_cleared)
        ELSE IF ~scratch_cleared.ok
        THEN Return([h0 EXCEPT !.dev.out_buffer = out_cleared.val], scratch_cleared)
        ELSE IF remaining = 0 THEN Return(h1, Ok(0))
        ELSE IF h.dev.block_size = 0 THEN Return(h1, Err(Panic))
        ELSE IF U32_divmod(remaining, h.dev.block_size).r # 0
        THEN Return(h1, Err(NonBlocksizeMultipleLengthError(capacity(dest),
                                                            h.dev.block_size)))
        ELSE IF ~read_command.ok THEN Return(h1, read_command)
        ELSE push_command_prepare(h1, read_command.val, TRUE, failing - 2)

\* ScsiBlockDevice::read up to the first channel operation
read(h, offset, dest, failing) ==
    LET prev_tag == IF h.dev.prev_csw.some THEN h.dev.prev_csw.val.tag ELSE 0
        h0 == [h EXCEPT !.call = [IdleCall EXCEPT !.name = "read", !.stage = "io",
                                                  !.prev_tag = prev_tag],
                        !.user = dest,
                        !.dev.prev_csw = None]
        out_cleared == clear(h.dev.out_buffer, failing)
        scratch_cleared == clear(h.dev.scratch_buffer, failing - 1)
        h1 == [h0 EXCEPT !.dev.out_buffer = out_cleared.val,
                         !.dev.scratch_buffer = scratch_cleared.val]
        remaining == capacity(dest) - size(dest)
        read_command == Read10Command_new(offset, remaining, h.dev.block_size)
    IN  IF ~out_cleared.ok THEN Return(h0, out_cleared)
        ELSE IF ~scratch_cleared.ok
        THEN Return([h0 EXCEPT !.dev.out_buffer = out_cleared.val], scratch_cleared)
        ELSE IF remaining = 0 THEN Return(h1, Ok(0))
        ELSE IF h.dev.block_size = 0 THEN Return(h1, Err(Panic))
        ELSE IF U32_divmod(remaining, h.dev.block_size).r # 0
        THEN Return(h1, Err(NonBlocksizeMultipleLengthError(remaining, h.dev.block_size)))
        ELSE IF ~read_command.ok THEN Return(h1, read_command)
        ELSE push_command_prepare(h1, read_command.val, TRUE, failing - 2)

\* a write that does not return early for an empty src
write_unguarded(h, offset, src, failing) ==
    LET prev_tag == IF h.dev.prev_csw.some THEN h.dev.prev_csw.val.tag ELSE 0
        h0 == [h EXCEPT !.call = [IdleCall EXCEPT !.name = "write", !.stage = "io",
                                                  !.prev_tag = prev_tag],
                        !.user = src,
                        !.dev.prev_csw = None]
        in_cleared == clear(h.dev.in_buffer, failing)
        scratch_cleared == clear(h.dev.scratch_buffer, failing - 1)
        h1 == [h0 EXCEPT !.dev.in_buffer = in_cleared.val,
                         !.dev.scratch_buffer = scratch_cleared.val]
        to_transfer == size(src)
        write_command == Write10Command_new(offset, to_transfer, h.dev.block_size)
    IN  IF ~in_cleared.ok THEN Return(h0, in_cleared)
        ELSE IF ~scratch_cleared.ok
        THEN Return([h0 EXCEPT !.dev.in_buffer = in_cleared.val], scratch_cleared)
        ELSE IF h.dev.block_size = 0 THEN Return(h1, Err(Panic))
        ELSE IF U32_divmod(to_transfer, h.dev.block_size).r # 0
        THEN Return(h1, Err(NonBlocksizeMultipleLengthError(to_transfer,
                                                            h.dev.block_size)))
        ELSE IF ~write_command.ok THEN Return(h1, write_command)
        ELSE push_command_prepare(h1, write_command.val, TRUE, failing - 2)

\* ScsiBlockDevice::write up to the first channel operation
write(h, offset, src, failing) ==
    LET prev_tag == IF h.dev.prev_csw.some THEN h.dev.prev_csw.val.tag ELSE 0
        h0 == [h EXCEPT !.call = [IdleCall EXCEPT !.name = "write", !.stage = "io"],
                        !.user = src]
        h1 == [h0 EXCEPT !.call.prev_tag = prev_tag,
                         !.dev.prev_csw = None]
        in_cleared == clear(h.dev.in_buffer, failing)
        scratch_cleared == clear(h.dev.scratch_buffer, failing - 1)
        h2 == [h1 EXCEPT !.dev.in_buffer = in_cleared.val,
                         !.dev.scratch_buffer = scratch_cleared.val]
        to_transfer == size(src)
        write_command == Write10Command_new(offset, to_transfer, h.dev.block_size)
    IN  IF size(src) = 0 THEN Return(h0, Ok(0))
        ELSE IF ~in_cleared.ok THEN Return(h1, in_cleared)
        ELSE IF ~scratch_cleared.ok
        THEN Return([h1 EXCEPT !.dev.in_buffer = in_cleared.val], scratch_cleared)
        ELSE IF h.dev.block_size = 0 THEN Return(h2, Err(Panic))
        ELSE IF U32_divmod(to_transfer, h.dev.block_size).r # 0
        THEN Return(h2, Err(NonBlocksizeMultipleLengthError(to_transfer,
                                                            h.dev.block_size)))
        ELSE IF ~write_command.ok THEN Return(h2, write_command)
        ELSE push_command_prepare(h2, write_command.val, TRUE, failing - 2)

(***************************************************************************)
(* The host on an arbitrary channel.  The channel and the device behind it *)
(* are the environment: every out_transfer returns an error or a count,    *)
(* every in_transfer an error or some bytes of what the device answers.    *)
(* wire holds the bytes the device has still to deliver in an IN data      *)
(* phase.                                                                  *)
(***************************************************************************)
\* the error a channel returns (the test channel's, on a poisoned lock)
ChannelFault == UnsupportedOperationError
\* the errors the host's channel returns: the test channel's, and the one a
\* channel built on a Buffer returns when the buffer is full
ChannelFaults == {ChannelFault, BufferTooSmallError(1, 0)}

InCaps == {8, 40}
ScratchCaps == {30, 32}
OutCaps == {4}
InquiryByte0 == {0, 5, 32}
BlockLengths == {0, 2, 3}
Offsets == {0, 1, 2}
CswTags == {0, 3}
CswResidues == {5}
CswStatuses == {COMMAND_PASSED, COMMAND_FAILED, PHASE_ERROR}

\* the next k bytes of the device's answer, 0 once it has run out
NextBytes(w, k) == [i \in 1..k |-> IF i <= Len(w) THEN w[i] ELSE 0]

\* what the device answers in the data phase of an IN command
DeviceResponses(cmd) ==
    CASE cmd.kind = "Inquiry" ->
            { NextBytes(<< b, 128, 5, 2 >>, cmd.allocation_length) :
                b \in InquiryByte0 }
      [] cmd.kind = "ReadCapacity" ->
            { ReadCapacityResponse_push_to_buffer(
                  [logical_block_address |-> 1023, block_length |-> bl], Zeros(8)) :
                bl \in BlockLengths }
      [] cmd.kind = "Read10" -> { Fill(cmd.transfer_bytes, 171) }
      [] OTHER -> { << >> }

Rest(w, k) == [i \in 1..(IF Len(w) > k THEN Len(w) - k ELSE 0) |-> w[i + k]]

\* the counts one transfer of a data phase may move: nothing, one byte, what
\* is still missing, or all that fits; the last transfer the bound allows
\* completes the phase
Counts(need, most, nth) ==
    { k \in {0, 1, need, most} :
        /\ k <= most
        /\ (nth + 1 >= MaxDataOps => k >= need) }

\* the 13 bytes of a CSW as the device sends it
CswBytes(csw) == CommandStatusWrapper_push_to_buffer(csw, Zeros(CSW_SIZE))

CswAnswers ==
    { Ok(CswBytes([tag |-> t, data_residue |-> r, status |-> st])) :
        t \in CswTags, r \in CswResidues, st \in CswStatuses }
    \cup { Ok(Overwrite(CswBytes(CommandStatusWrapper_default), 3, << 67 >>)),
           Ok(Slice(CswBytes(CommandStatusWrapper_default), 0, CSW_SIZE - 1)) }
    \cup { Err(f) : f \in ChannelFaults }

Apply(h) == dev' = h.dev /\ call' = h.call /\ user' = h.user

\* a channel operation as the log keeps it: the buffer length offered (out)
\* or the room offered (in), the count returned (-1 for an error), the error
\* returned and, for the CSW, the bytes received
OpEntry(what, op, len, res) ==
    [what |-> what, op |-> op, len |-> len,
     n |-> IF ~res.ok THEN -1
           ELSE IF op = "out" THEN res.val
           ELSE Len(res.val),
     err |-> IF res.ok THEN None ELSE Some(res.err),
     got |-> IF res.ok /\ what = "csw" THEN res.val ELSE << >>]

\* the log ends with a CSW of 13 bytes that carries the CSW signature, the
\* tag of the CBW the log starts with, and status PASSED
LastPassed(log, tag) ==
    /\ log # << >>
    /\ LET e == log[Len(log)]
       IN  /\ e.what = "csw" /\ e.n = CSW_SIZE
           /\ Slice(e.got, 0, 4) = LE_write_u32(D_CSW_SIGNATURE)
           /\ Slice(e.got, 4, 4) = LE_write_u32(tag)
           /\ e.got[13] = COMMAND_PASSED

\* the calls of read/write on a handle, numbered from 1, in which a clear()
\* of a buffer is let fail (in new it always is)
FaultyCalls == {1}

\* the numbers a step that runs up to n clear() calls may be given for the
\* one that fails, in the nth call of read/write on the handle (0 for new)
Failing(n, nth) == IF nth = 0 \/ nth \in FaultyCalls THEN 0..n ELSE {0}

\* the caller constructs the handle
HostNew ==
    /\ dev.state = "none" /\ call.name = "none"
    /\ \E failing \in Failing(4, 0) : Apply(new(HostState, failing))
    /\ UNCHANGED << codecVars, arg, ops, cbwLog, ncalls, wire, targetVars, queueVars >>

\* read and write clear two buffers before they look at the request, so
\* that a failure of one of the two is followed at one offset, which no
\* block size of the devices divides
FaultOffsets == {1}
\* the failure of the clear() of push_command, which a call reaches only at
\* an offset the block size divides, is followed at one offset too
CommandFaultOffsets == {0}

\* the clear() that may fail before the first channel operation of a read
\* or write at offset (the nth call on the handle): one of its own two, or
\* push_command's, which fails only if the call gets that far
ClearsAhead(offset, nth) ==
    { f \in Failing(3, nth) :
        /\ f \in {1, 2} => offset \in FaultOffsets
        /\ f = 3 => offset \in CommandFaultOffsets }

\* the call that returned last, when it was a read into a buffer with no room
\* left that returned Ok(0) without a channel transfer ("none" when it was
\* not)
EmptyCallBefore ==
    IF /\ call.name = "none" /\ call.result = Some(Ok(0)) /\ ops = << >>
       /\ call.last = "read" /\ arg.cap = arg.size
    THEN call.last ELSE "none"

\* the caller reads into a buffer of its choice
HostRead ==
    /\ dev.state = "ok" /\ call.name = "none" /\ ncalls < MaxCalls
    /\ \E offset \in Offsets, cap \in 0..MaxLen :
         \E sz \in {0, 1, cap} \cap 0..cap :
         LET dest == [cap |-> cap, data |-> Fill(sz, 17)] IN
         \E failing \in ClearsAhead(offset, ncalls + 1) :
            /\ Apply(read(HostState, offset, dest, failing))
            /\ arg' = [offset |-> offset, cap |-> cap, size |-> sz,
                       before |-> EmptyCallBefore]
    /\ ncalls' = ncalls + 1
    /\ ops' = << >>
    /\ UNCHANGED << codecVars, cbwLog, wire, targetVars, queueVars >>

\* the caller writes a buffer of its choice
HostWrite ==
    /\ dev.state = "ok" /\ call.name = "none" /\ ncalls < MaxCalls
    /\ \E offset \in Offsets, sz \in 0..MaxLen :
         LET src == [cap |-> MaxLen, data |-> Fill(sz, 255)] IN
         \E failing \in ClearsAhead(offset, ncalls + 1) :
            /\ Apply(write(HostState, offset, src, failing))
            /\ arg' = [offset |-> offset, cap |-> MaxLen, size |-> sz,
                       before |-> EmptyCallBefore]
    /\ ncalls' = ncalls + 1
    /\ ops' = << >>
    /\ UNCHANGED << codecVars, cbwLog, wire, targetVars, queueVars >>

\* what the log keeps of a CBW handed to out_transfer (read off the 31
\* bytes), and whether the command before it had passed
CbwEntry(h) ==
    LET bytes == h.dev.scratch_buffer.data
    IN  [call |-> h.call.name,
         tag |-> LE_read_u32(bytes, 4),
         dtl |-> LE_read_u32(bytes, 8),
         dir |-> IF bytes[13] >= 128 THEN "in" ELSE "out",
         opcode |-> bytes[16],
         prev |-> IF ops = << >> THEN "none"
                  ELSE IF LastPassed(ops, cbwLog[Len(cbwLog)].tag) THEN "passed"
                  ELSE "failed"]

\* push_command's out_transfer of the 31-byte CBW
ChanCbwOut ==
    /\ call.phase = "cbw"
    /\ \E res \in {Ok(CBW_SIZE), Ok(CBW_SIZE - 1), Ok(CBW_SIZE + 1)}
                    \cup { Err(f) : f \in ChannelFaults },
          failing \in Failing(2, ncalls) :
         /\ Apply(push_command(HostState, res, failing))
         /\ ops' = << OpEntry("cbw", "out", size(dev.scratch_buffer), res) >>
         /\ IF res = Ok(CBW_SIZE)
            THEN wire' \in DeviceResponses(call.cmd)
            ELSE wire' = << >>
    /\ cbwLog' = Append(cbwLog, CbwEntry(HostState))
    /\ UNCHANGED << codecVars, arg, ncalls, targetVars, queueVars >>

\* one in_transfer of an IN data phase
ChanDataIn ==
    /\ call.phase = "data" /\ command_wrapper(call.cmd).direction = "IN"
    /\ LET room == capacity(InTarget(HostState)) - size(InTarget(HostState))
           need == command_wrapper(call.cmd).data_transfer_length - call.acc
       IN  \/ \E k \in Counts(need, room, call.ndata),
                   failing \in Failing(2, ncalls) :
                /\ Apply(data_in(HostState, Ok(NextBytes(wire, k)), failing))
                /\ ops' = Append(ops, OpEntry("data", "in", room, Ok(NextBytes(wire, k))))
                /\ wire' = Rest(wire, k)
           \/ \E f \in ChannelFaults :
                /\ Apply(data_in(HostState, Err(f), 0))
                /\ ops' = Append(ops, OpEntry("data", "in", room, Err(f)))
                /\ wire' = << >>
    /\ UNCHANGED << codecVars, arg, cbwLog, ncalls, targetVars, queueVars >>

\* one out_transfer of an OUT data phase
ChanDataOut ==
    /\ call.phase = "data" /\ command_wrapper(call.cmd).direction # "IN"
    /\ LET have == size(OutSource(HostState))
           need == command_wrapper(call.cmd).data_transfer_length - call.acc
       IN  \E res \in { Ok(k) : k \in Counts(need, have, call.ndata) }
                        \cup { Err(f) : f \in ChannelFaults },
              failing \in Failing(2, ncalls) :
                /\ Apply(data_out(HostState, res, failing))
                /\ ops' = Append(ops, OpEntry("data", "out", have, res))
    /\ UNCHANGED << codecVars, arg, cbwLog, ncalls, wire, targetVars, queueVars >>

\* read_csw's in_transfer.  Only new clears buffers after it, before its
\* next command; read and write add 1 to the tag they started with, which
\* depends on the build when that tag is 0xFFFFFFFF
ChanCswIn ==
    /\ call.phase = "csw"
    /\ \E res \in CswAnswers,
          overflow_checks \in (IF call.prev_tag = -1 THEN BOOLEAN ELSE {TRUE}),
          failing \in Failing(IF call.name = "new" THEN 4 ELSE 0, ncalls) :
         /\ Apply(read_csw(HostState, res, overflow_checks, failing))
         /\ ops' = Append(ops, OpEntry("csw", "in", CSW_SIZE, res))
    /\ wire' = << >>
    /\ UNCHANGED << codecVars, arg, cbwLog, ncalls, targetVars, queueVars >>

HostInit ==
    /\ dev \in { [state |-> "none",
                  in_buffer |-> Buffer_new(ic),
                  out_buffer |-> Buffer_new(oc),
                  scratch_buffer |-> Buffer_new(sc),
                  block_size |-> 0,
                  prev_csw |-> None] : ic \in InCaps, oc \in OutCaps, sc \in ScratchCaps }
    /\ call = IdleCall
    /\ user = Buffer_new(0)
    /\ arg = [offset |-> 0, cap |-> 0, size |-> 0, before |-> "none"]
    /\ ops = << >>
    /\ cbwLog = << >>
    /\ ncalls = 0

\* process_command is not running
IdleTarget ==
    [pc |-> "idle", command_buffer |-> Zeros(CBW_SIZE), cbw |-> None,
     command |-> NoCmd, block |-> << >>, csw |-> None, result |-> None]

\* no target: nothing answers but the environment
NoTarget ==
    /\ tgt = IdleTarget
    /\ resp = [kind |-> "none"]
    /\ tlog = << >>
    /\ turns = 0
    /\ h2d = << >> /\ d2h = << >> /\ done = << >> /\ clearing = "none"

\* no codec test is running
NoCodec ==
    /\ input = [kind |-> "none"]
    /\ buff = << >>
    /\ pushed = None /\ patch = None /\ pulled = None

vars == << dev, call, user, arg, ops, cbwLog, ncalls, wire,
           tgt, resp, tlog, turns, h2d, d2h, done, clearing,
           input, buff, pushed, patch, pulled >>

Init == HostInit /\ wire = << >> /\ NoTarget /\ NoCodec

Next ==
    \/ HostNew
    \/ HostRead
    \/ HostWrite
    \/ ChanCbwOut
    \/ ChanDataIn
    \/ ChanDataOut
    \/ ChanCswIn

Spec == Init /\ [][Next]_vars

(***************************************************************************)
(* Properties of the host.                                                 *)
(***************************************************************************)
\* the call that is running, or the last one that returned
CurrentCall == IF call.name # "none" THEN call.name ELSE call.last

\* the length read or write was asked to move: the room left in dest, the
\* bytes held by src
AskedLen == IF CurrentCall = "read" THEN arg.cap - arg.size ELSE arg.size

Returned(r) == call.name = "none" /\ call.result = Some(r)

\* the CBWs sent by read and write, in order
IoCbws == SelectSeq(cbwLog, LAMBDA e : e.call \in {"read", "write"})
\* the CBWs sent by new, in order
NewCbws == SelectSeq(cbwLog, LAMBDA e : e.call = "new")

\* C1: the first CBW of a read or write after construction carries tag 3, and
\* the tag of every later one is one more than the tag of the CBW before it.
C1_TagsIncreaseByOne ==
    \A i \in 1..Len(IoCbws) :
        IoCbws[i].tag = IF i = 1 THEN SEED_TAG + 1 ELSE IoCbws[i - 1].tag + 1

\* the bytes the data operations before the i-th operation of the log moved
RECURSIVE MovedBefore(_, _)
MovedBefore(log, i) ==
    IF i <= 1 THEN 0
    ELSE MovedBefore(log, i - 1)
         + (IF log[i - 1].what = "data" /\ log[i - 1].n > 0 THEN log[i - 1].n ELSE 0)

\* C4: the channel operations of a host command are: one out_transfer of the
\* 31-byte CBW; then data transfers, only while the bytes moved so far are
\* fewer than data_transfer_length (so none when it is 0), all in the declared
\* direction; then one in_transfer of 13 bytes for the CSW, only once the bytes
\* moved have reached data_transfer_length.  Nothing follows the CSW or a
\* failed operation, and a command that passed has read its CSW.
C4_CommandOrder ==
    ops # << >> =>
        LET cbw == cbwLog[Len(cbwLog)] IN
        /\ ops[1].what = "cbw" /\ ops[1].op = "out" /\ ops[1].len = CBW_SIZE
        /\ \A i \in 2..Len(ops) :
            /\ ops[i].what \in {"data", "csw"}
            /\ ops[i - 1].what # "csw"
            /\ ops[i - 1].n >= 0
            /\ ops[i - 1].what = "cbw" => ops[i - 1].n = CBW_SIZE
            /\ ops[i].what = "data" =>
                /\ cbw.dtl > 0
                /\ MovedBefore(ops, i) < cbw.dtl
                /\ ops[i].op = cbw.dir
            /\ ops[i].what = "csw" =>
                /\ ops[i].op = "in" /\ ops[i].len = CSW_SIZE
                /\ MovedBefore(ops, i) >= cbw.dtl
        /\ (call.phase \in {"idle", "cbw"} /\ (call.phase = "idle" => call.result.val.ok))
              => ops[Len(ops)].what = "csw"

\* a read that passed after its data came in at least two transfers
C4_Witness ==
    /\ Returned(Ok(4)) /\ call.last = "read"
    /\ Len(ops) >= 4 /\ ops[Len(ops)].what = "csw"

\* the call has returned the error of a clear() that failed
ClearFailed == Returned(Err(BufferFault))

\* C5 as stated: with block size bs > 0, a read or write of a length len > 0
\* that is not a multiple of bs returns
\* NonBlocksizeMultipleLengthError{len, bs} and makes no channel transfer,
\* whatever the buffers of the handle do.
C5_LengthNotMultiple ==
    (/\ CurrentCall \in {"read", "write"}
     /\ dev.block_size > 0 /\ AskedLen > 0
     /\ AskedLen % dev.block_size # 0)
    => /\ Returned(Err(NonBlocksizeMultipleLengthError(AskedLen, dev.block_size)))
       /\ ops = << >>

\* C5, amended: with block size bs > 0, a read or write of a length len > 0
\* that is not a multiple of bs makes no channel transfer, and it returns
\* NonBlocksizeMultipleLengthError{len, bs} unless one of the two clear()
\* calls it makes before it looks at the length failed: then it returns the
\* error of that clear().
C5_LengthNotMultipleOnceCleared ==
    (/\ CurrentCall \in {"read", "write"}
     /\ dev.block_size > 0 /\ AskedLen > 0
     /\ AskedLen % dev.block_size # 0)
    => /\ \/ Returned(Err(NonBlocksizeMultipleLengthError(AskedLen,
                                                         dev.block_size)))
          \/ ClearFailed
       /\ ops = << >>

\* a read into a partly filled buffer and a write were refused for their
\* length, their buffers cleared
C5_Witness ==
    /\ dev.block_size = 3
    /\ \/ call.last = "read" /\ arg.size = 1 /\ arg.cap = 3
       \/ call.last = "write" /\ arg.size = 2 /\ dev.in_buffer.data = << >>
    /\ dev.scratch_buffer.data = << >>
    /\ Returned(Err(NonBlocksizeMultipleLengthError(2, 3)))

\* C6 as stated: with block size bs > 0, a read or write of a length that is
\* a multiple of bs and not 0, at an offset that is not a multiple of bs,
\* returns NonBlocksizeMultipleLengthError and makes no channel transfer,
\* whatever the buffers of the handle do.
C6_OffsetNotAligned ==
    (/\ CurrentCall \in {"read", "write"}
     /\ dev.block_size > 0 /\ AskedLen > 0
     /\ AskedLen % dev.block_size = 0
     /\ arg.offset % dev.block_size # 0)
    => /\ call.name = "none"
       /\ ~call.result.val.ok
       /\ call.result.val.err.cause = "NonBlocksizeMultipleLengthError"
       /\ ops = << >>

\* C6, amended: with block size bs > 0, a read or write of a length that is a
\* multiple of bs and not 0, at an offset that is not a multiple of bs, makes
\* no channel transfer, and it returns NonBlocksizeMultipleLengthError
\* unless one of the two clear() calls it makes before it builds the command
\* failed: then it returns the error of that clear().
C6_OffsetNotAlignedOnceCleared ==
    (/\ CurrentCall \in {"read", "write"}
     /\ dev.block_size > 0 /\ AskedLen > 0
     /\ AskedLen % dev.block_size = 0
     /\ arg.offset % dev.block_size # 0)
    => /\ call.name = "none"
       /\ ~call.result.val.ok
       /\ \/ call.result.val.err.cause = "NonBlocksizeMultipleLengthError"
          \/ ClearFailed
       /\ ops = << >>

\* a read of two blocks of 2 bytes at offset 1 was refused with
\* NonBlocksizeMultipleLengthError, its buffers cleared
C6_Witness ==
    /\ call.last = "read" /\ call.name = "none"
    /\ dev.block_size = 2 /\ arg.offset = 1 /\ arg.cap - arg.size = 4
    /\ ~call.result.val.ok
    /\ call.result.val.err.cause = "NonBlocksizeMultipleLengthError"
    /\ dev.scratch_buffer.data = << >>

\* C7 as stated: a read into a buffer with no room left and a write of an
\* empty buffer return Ok(0) and make no channel transfer, whatever the
\* buffers of the handle do.
C7_EmptyTransfer ==
    (/\ CurrentCall \in {"read", "write"}
     /\ AskedLen = 0)
    => /\ Returned(Ok(0))
       /\ ops = << >>

\* C7, amended: a write of an empty buffer returns Ok(0) and makes no channel
\* transfer.  A read into a buffer with no room left makes no channel
\* transfer, and it returns Ok(0) unless one of the two clear() calls it
\* makes before it looks at the room failed: then it returns the error of
\* that clear().
C7_EmptyTransferOnceCleared ==
    (/\ CurrentCall \in {"read", "write"}
     /\ AskedLen = 0)
    => /\ \/ Returned(Ok(0))
          \/ CurrentCall = "read" /\ ClearFailed
       /\ ops = << >>

\* a read into a full buffer returned Ok(0), and the write of an empty
\* buffer that followed it returned Ok(0) too and left the handle as the
\* read had: the cached CSW taken, the scratch buffer cleared and the in
\* buffer not, no CBW sent by either
C7_Witness ==
    /\ call.last = "write" /\ Returned(Ok(0))
    /\ arg.size = 0 /\ ops = << >>
    /\ arg.before = "read"
    /\ ncalls = 2 /\ IoCbws = << >>
    /\ dev.state = "ok" /\ ~dev.prev_csw.some
    /\ dev.scratch_buffer.data = << >> /\ dev.in_buffer.data # << >>

\* C8: new sends the CBWs of INQUIRY, TEST UNIT READY and READ CAPACITY(10),
\* in this order and no others; each after the first is sent only once the
\* command before it has received a CSW accepted as PASSED; new returns Ok
\* only after all three have passed; a channel operation that fails or a CSW
\* with another status ends new with that error.
C8_ConstructionSequence ==
    /\ Len(NewCbws) <= 3
    /\ \A i \in 1..Len(NewCbws) :
        /\ NewCbws[i].opcode = << 18, 0, 37 >>[i]
        /\ NewCbws[i].prev = (IF i = 1 THEN "none" ELSE "passed")
    /\ (call.last = "new" /\ call.name = "none" /\ call.result.val.ok)
          => /\ Len(NewCbws) = 3
             /\ LastPassed(ops, cbwLog[Len(cbwLog)].tag)
    /\ dev.state = "failed" => call.last = "new" /\ ~call.result.val.ok
    /\ (CurrentCall = "new" /\ ops # << >>) =>
          LET e == ops[Len(ops)] IN
          /\ e.n = -1 => Returned(Err(e.err.val))
          /\ (e.what = "cbw" /\ e.n \notin {-1, CBW_SIZE})
                => Returned(Err(UsbTransferError("Out")))
          /\ (/\ e.what = "csw" /\ e.n = CSW_SIZE
              /\ Slice(e.got, 0, 4) = LE_write_u32(D_CSW_SIGNATURE)
              /\ Slice(e.got, 4, 4) = LE_write_u32(cbwLog[Len(cbwLog)].tag)
              /\ e.got[13] # COMMAND_PASSED)
                => Returned(Err(FlagError(e.got[13])))

\* new has returned a handle after its three commands
C8_Witness ==
    /\ dev.state = "ok" /\ call.last = "new" /\ call.name = "none"
    /\ Len(NewCbws) = 3 /\ NewCbws[3].opcode = 37

\* the step in which new receives the CSW of its INQUIRY and accepts it
InquiryPasses ==
    /\ call.name = "new" /\ call.stage = "inquiry" /\ call.phase = "csw"
    /\ LastPassed(ops', cbwLog[Len(cbwLog)].tag)

\* C9, amended: when the INQUIRY of new has passed and byte 0 of its response
\* has a bit set among the top three (device_qualifier) or the low five
\* (device_type), new returns InvalidDeviceError, and the CBWs of TEST UNIT
\* READY and READ CAPACITY are never sent; when the byte is 0 new goes on to
\* send TEST UNIT READY, unless one of the clear() calls it makes before that
\* CBW failed: then new returns the error of that clear() and sends no
\* further CBW.
C9_InquiryGateOnceCleared ==
    /\ [][InquiryPasses =>
            LET bt == dev.in_buffer.data[1]
            IN  IF bt \div 32 # 0 \/ bt % 32 # 0
                THEN /\ call'.name = "none"
                     /\ call'.result = Some(Err(InvalidDeviceError))
                     /\ dev'.state = "failed"
                ELSE \/ /\ call'.name = "new" /\ call'.phase = "cbw"
                        /\ call'.cmd = TestUnitReady_new
                        /\ dev'.scratch_buffer.data[16] = 0
                     \/ /\ ClearFailed' /\ dev'.state = "failed"]_vars
    /\ [](call.result = Some(Err(InvalidDeviceError)) => Len(cbwLog) = 1)
    /\ [][dev.state = "failed" => cbwLog' = cbwLog]_vars

\* C9 as stated: when the INQUIRY of new has passed and byte 0 of its
\* response has a bit set among the top three (device_qualifier) or the low
\* five (device_type), new returns InvalidDeviceError, and the CBWs of TEST
\* UNIT READY and READ CAPACITY are never sent; when the byte is 0 new goes on
\* to send TEST UNIT READY, whatever the buffers of the handle do.
C9_InquiryGate ==
    /\ [][InquiryPasses =>
            LET bt == dev.in_buffer.data[1]
            IN  IF bt \div 32 # 0 \/ bt % 32 # 0
                THEN /\ call'.name = "none"
                     /\ call'.result = Some(Err(InvalidDeviceError))
                     /\ dev'.state = "failed"
                ELSE /\ call'.name = "new" /\ call'.phase = "cbw"
                     /\ call'.cmd = TestUnitReady_new
                     /\ dev'.scratch_buffer.data[16] = 0]_vars
    /\ [](call.result = Some(Err(InvalidDeviceError)) => Len(cbwLog) = 1)
    /\ [][dev.state = "failed" => cbwLog' = cbwLog]_vars

\* new has refused a device whose INQUIRY response starts with byte 32
C9_Witness ==
    /\ Returned(Err(InvalidDeviceError)) /\ dev.state = "failed"
    /\ dev.in_buffer.data[1] = 32
    /\ LastPassed(ops, 0)
    /\ Len(cbwLog) = 1

\* the step in which new receives the CSW of its READ CAPACITY and returns Ok
ConstructionEnds ==
    /\ call.name = "new" /\ call.stage = "readcap" /\ call.phase = "csw"
    /\ dev'.state = "ok"

\* C10: the handle new returns has for block size the block_length of the
\* READ CAPACITY response (bytes 4..7, big-endian), and no read or write,
\* passed or failed, changes it.
C10_BlockSizeFixed ==
    /\ [][ConstructionEnds => dev'.block_size = BE_read_u32(dev.in_buffer.data, 4)]_vars
    /\ [][dev.state \in {"ok", "panicked"} => dev'.block_size = dev.block_size]_vars

\* a handle of block size 3 after a read that passed and a call that failed
C10_Witness ==
    /\ dev.state = "ok" /\ dev.block_size = 3
    /\ ncalls = 2 /\ call.name = "none" /\ ~call.result.val.ok
    /\ \E i \in 1..Len(IoCbws) : IoCbws[i].call = "read"

\* the last channel operation of the command is the in_transfer of a CSW that
\* delivered 13 bytes starting with the CSW signature
CswReceived ==
    /\ ops # << >>
    /\ LET e == ops[Len(ops)]
       IN  /\ e.what = "csw" /\ e.n = CSW_SIZE
           /\ Slice(e.got, 0, 4) = LE_write_u32(D_CSW_SIGNATURE)

\* the command whose CSW was received has succeeded: read and write return
\* Ok; new goes on to its next command, returns the handle, refuses the
\* device the INQUIRY described, or fails to clear a buffer for its next
\* command
CommandSucceeded ==
    \/ call.name = "none" /\ call.result.val.ok
    \/ call.name = "new" /\ call.phase = "cbw" /\ call.stage \in {"tur", "readcap"}
    \/ /\ call.last = "new" /\ call.stage = "inquiry"
       /\ Returned(Err(InvalidDeviceError))
    \/ call.last = "new" /\ ClearFailed

\* C11: once the host has received a CSW of 13 bytes with the CSW signature:
\* if its tag is not the tag of the CBW just sent the call returns ParseError,
\* whatever the status; otherwise if its status is not 0 the call returns
\* FlagError{flags: status}; otherwise the command succeeds.
C11_CswReconciled ==
    CswReceived =>
        LET e == ops[Len(ops)]
            cbw == cbwLog[Len(cbwLog)]
        IN  IF LE_read_u32(e.got, 4) # cbw.tag THEN Returned(Err(ParseError))
            ELSE IF e.got[13] # COMMAND_PASSED
            THEN Returned(Err(FlagError(e.got[13])))
            ELSE CommandSucceeded

\* a read received a CSW with another tag and status FAILED, and returned
\* ParseError
C11_Witness ==
    /\ CswReceived /\ call.last = "read"
    /\ LE_read_u32(ops[Len(ops)].got, 4) = 3
    /\ ops[Len(ops)].got[13] = COMMAND_FAILED
    /\ Returned(Err(ParseError))

\* C18: in new, read and write, a channel operation that returned an error
\* is the last channel operation of the call, and the call has returned the
\* error the channel returned: nothing is tried again.
C18_ChannelErrorEndsCall ==
    \A i \in 1..Len(ops) :
        ops[i].n = -1 =>
            /\ i = Len(ops)
            /\ Returned(Err(ops[i].err.val))

\* a read whose second in_transfer of data failed after the first delivered
\* one byte
C18_Witness ==
    /\ call.last = "read" /\ Len(ops) = 3
    /\ ops[2].what = "data" /\ ops[2].n = 1
    /\ ops[3].what = "data" /\ ops[3].n = -1
    /\ Returned(Err(BufferTooSmallError(1, 0)))

\* C19: when the channel accepted a number of bytes other than 31 for the
\* CBW, the call has returned UsbTransferError{direction: Out} and the CBW is
\* its only channel operation: no data phase, no read of the CSW.  When the
\* in_transfer of the CSW delivered a number of bytes other than 13, the call
\* has returned UsbTransferError{direction: In}.
C19_ShortTransfers ==
    ops # << >> =>
        /\ (ops[1].what = "cbw" /\ ops[1].n \notin {-1, CBW_SIZE}) =>
              /\ Len(ops) = 1
              /\ Returned(Err(UsbTransferError("Out")))
        /\ LET e == ops[Len(ops)]
           IN  (e.what = "csw" /\ e.n \notin {-1, CSW_SIZE}) =>
                  Returned(Err(UsbTransferError("In")))

\* a write whose CBW the channel accepted 30 bytes of
C19_Witness ==
    /\ call.last = "write" /\ Len(ops) = 1
    /\ ops[1].what = "cbw" /\ ops[1].n = CBW_SIZE - 1
    /\ Returned(Err(UsbTransferError("Out")))

\* the handle exists and no call is running
BetweenCalls == dev.state = "ok" /\ call.name = "none"

\* the tag of the cached CSW when the call that is running (or about to be
\* made) started, 0 for none
TagAtCallStart ==
    IF call.name # "none" THEN call.prev_tag
    ELSE IF dev.prev_csw.some THEN dev.prev_csw.val.tag ELSE 0

\* the call that returned last completed a command: it returned Ok after
\* channel operations
CompletedCommand == call.result.val.ok /\ ops # << >>

\* C32: in every state between host calls after new has returned Ok,
\* prev_csw is present; its tag is 2 after new, one more than before after a
\* read or write that completed a command, and what it was before after a
\* call that failed or that returned Ok(0) for an empty buffer (so that the
\* tag is 2 plus the number of commands read and write have completed).
C32_PrevCswCounts ==
    [][BetweenCalls' =>
          /\ dev'.prev_csw.some
          /\ dev'.prev_csw.val.tag =
                IF call'.last = "new" THEN SEED_TAG
                ELSE IF CompletedCommand' THEN TagAtCallStart + 1
                ELSE TagAtCallStart]_vars

\* C39: a handle that new has returned Ok has a block_size greater than 0,
\* and no read or write on it has divided by zero.
C39_BlockSizePositive ==
    /\ dev.state = "ok" => dev.block_size > 0
    /\ dev.state # "panicked"

(***************************************************************************)
(* The host on a channel that keeps the contract: every in_transfer of a   *)
(* data phase delivers at least one byte and every out_transfer accepts at *)
(* least one, and none fails.  The handle is one that new has returned     *)
(* from a device of block length 1 or 2; the number of transfers of a data *)
(* phase is bounded by the contract alone.  The call followed is the first *)
(* read or write on the handle, the last one the bound on calls allows;    *)
(* the clear() calls that follow its data phase may fail.                  *)
(***************************************************************************)
ContractBlockLengths == {1, 2}

\* the handle new returns on buffers of 40, 4 and 32 bytes once INQUIRY,
\* TEST UNIT READY and READ CAPACITY have passed
ContractHandle(block_length) ==
    [state |-> "ok",
     in_buffer |-> [cap |-> 40,
                    data |-> ReadCapacityResponse_push_to_buffer(
                                [logical_block_address |-> 1023,
                                 block_length |-> block_length], Zeros(8))],
     out_buffer |-> Buffer_new(4),
     scratch_buffer |-> [cap |-> 32,
                         data |-> Zeros(19) \o CswBytes(CommandStatusWrapper_default)],
     block_size |-> block_length,
     prev_csw |-> Some([CommandStatusWrapper_default EXCEPT !.tag = SEED_TAG])]

\* the counts a transfer may move under the contract: one byte, two, what
\* is still missing, or all that fits
ContractCounts(need, most) == { k \in {1, 2, need, most} : 1 <= k /\ k <= most }

\* one in_transfer of an IN data phase, under the contract
ContractDataIn ==
    /\ call.phase = "data" /\ command_wrapper(call.cmd).direction = "IN"
    /\ LET room == capacity(InTarget(HostState)) - size(InTarget(HostState))
           need == command_wrapper(call.cmd).data_transfer_length - call.acc
       IN  \E k \in ContractCounts(need, room), failing \in 0..2 :
              /\ Apply(data_in(HostState, Ok(NextBytes(wire, k)), failing))
              /\ ops' = Append(ops, OpEntry("data", "in", room, Ok(NextBytes(wire, k))))
              /\ wire' = Rest(wire, k)
    /\ UNCHANGED << codecVars, arg, cbwLog, ncalls, targetVars, queueVars >>

\* one out_transfer of an OUT data phase, under the contract
ContractDataOut ==
    /\ call.phase = "data" /\ command_wrapper(call.cmd).direction # "IN"
    /\ LET have == size(OutSource(HostState))
           need == command_wrapper(call.cmd).data_transfer_length - call.acc
       IN  \E k \in ContractCounts(need, have), failing \in 0..2 :
              /\ Apply(data_out(HostState, Ok(k), failing))
              /\ ops' = Append(ops, OpEntry("data", "out", have, Ok(k)))
    /\ UNCHANGED << codecVars, arg, cbwLog, ncalls, wire, targetVars, queueVars >>

ContractInit ==
    /\ dev \in { ContractHandle(bl) : bl \in ContractBlockLengths }
    /\ call = [IdleCall EXCEPT !.last = "new", !.result = Some(Ok(0))]
    /\ user = Buffer_new(0)
    /\ arg = [offset |-> 0, cap |-> 0, size |-> 0, before |-> "none"]
    /\ ops = << >> /\ cbwLog = << >> /\ ncalls = MaxCalls - 1
    /\ wire = << >> /\ NoTarget /\ NoCodec

ContractNext ==
    \/ HostRead
    \/ HostWrite
    \/ ChanCbwOut
    \/ ContractDataIn
    \/ ContractDataOut
    \/ ChanCswIn

\* a transfer that is pending returns
ContractSpec ==
    /\ ContractInit /\ [][ContractNext]_vars
    /\ WF_vars(ContractDataIn) /\ WF_vars(ContractDataOut)

\* the data_transfer_length of the command the call is transferring
DataTransferLength == command_wrapper(call.cmd).data_transfer_length

\* C38 as stated: under the contract, a data phase of a command with
\* data_transfer_length L > 0 makes at most L channel transfers, and it ends
\* with the call about to read the CSW, whatever the buffers of the handle
\* do.
C38_DataPhaseEnds ==
    /\ [](call.phase \in {"data", "csw"} => call.ndata <= DataTransferLength)
    /\ [](call.phase = "csw" /\ DataTransferLength > 0 =>
             call.ndata >= 1 /\ call.acc >= DataTransferLength)
    /\ (call.phase = "data") ~> (call.phase = "csw")

\* the data phase has ended and one of the two clear() calls of the scratch
\* buffer that come before the CSW is read has failed
ClearFailedAfterData ==
    /\ ClearFailed /\ ops # << >>
    /\ ops[Len(ops)].what = "data"

\* C38, amended: under the contract, a data phase of a command with
\* data_transfer_length L > 0 makes at most L channel transfers, and it ends
\* with the call about to read the CSW, unless one of the two clear() calls
\* of the scratch buffer that follow the data phase failed: then the call
\* returns the error of that clear() and reads no CSW.
C38_DataPhaseEndsOnceCleared ==
    /\ [](call.phase \in {"data", "csw"} => call.ndata <= DataTransferLength)
    /\ []((call.phase = "csw" \/ ClearFailedAfterData) /\ DataTransferLength > 0
             => call.ndata >= 1 /\ call.ndata <= DataTransferLength
                /\ call.acc >= DataTransferLength)
    /\ (call.phase = "data") ~> (call.phase = "csw" \/ ClearFailedAfterData)

\* a read of four bytes that took four transfers of one byte each, more
\* than the channel of Spec is allowed
C38_Witness ==
    /\ call.name = "read" /\ call.phase = "csw"
    /\ DataTransferLength = MaxLen /\ call.ndata = MaxLen
    /\ call.ndata > MaxDataOps

(***************************************************************************)
(* The target: ScsiResponder::process_command (scsi/responder.rs).         *)
(* Each operator is process_command from one call of the channel or of a   *)
(* responder callback to the next; the value that call returned is a       *)
(* parameter.                                                              *)
(***************************************************************************)
\* process_command returns r
TargetReturn(t, r) == [t EXCEPT !.pc = "idle", !.result = Some(r)]

\* process_command up to its first in_transfer
process_command(t) == [IdleTarget EXCEPT !.pc = "cbw_in"]

\* the responder method a decoded command is handed to
callback_of(command) ==
    CASE command.kind = "ReadCapacity" -> "read_capacity"
      [] command.kind = "Inquiry" -> "inquiry"
      [] command.kind = "RequestSense" -> "request_sense"
      [] command.kind = "TestUnitReady" -> "test_unit_ready"
      [] command.kind = "Read10" -> "read10_start"
      [] command.kind = "Write10" -> "write10_start"

\* the in_transfer of the CBW returned res (the bytes received): the count
\* is checked, then the CBW and the command are decoded
cbw_received(t, res) ==
    IF ~res.ok THEN TargetReturn(t, res)
    ELSE LET command_buffer == Overwrite(t.command_buffer, 0, res.val)
             cbw == CommandBlockWrapper_pull_from_buffer(command_buffer)
             command == ScsiCommand_pull_from_buffer(command_buffer)
             t1 == [t EXCEPT !.command_buffer = command_buffer]
         IN  IF Len(res.val) # CBW_SIZE
             THEN TargetReturn(t1, Err(UsbTransferError("In")))
             ELSE IF ~cbw.ok THEN TargetReturn(t1, cbw)
             ELSE IF ~command.ok THEN TargetReturn(t1, command)
             ELSE [t1 EXCEPT !.cbw = Some(cbw.val),
                             !.command = command.val,
                             !.pc = callback_of(command.val)]

\* a target that sends the CSW with the tag the callback chose
send_csw_as_returned(t, csw) ==
    [t EXCEPT !.csw = Some(csw),
              !.command_buffer =
                  CommandStatusWrapper_push_to_buffer(csw, t.command_buffer),
              !.pc = "csw_out"]

\* a target that reports every command as passed
send_csw_passed(t, csw) ==
    LET tagged == [csw EXCEPT !.tag = t.cbw.val.tag, !.status = COMMAND_PASSED]
    IN  [t EXCEPT !.csw = Some(tagged),
                  !.command_buffer =
                      CommandStatusWrapper_push_to_buffer(tagged, t.command_buffer),
                  !.pc = "csw_out"]

\* the end of process_command up to the out_transfer of the CSW: the tag of
\* the CBW is written over the one the callback chose, and the CSW is
\* encoded at the start of the 31-byte buffer
send_csw(t, csw) ==
    LET tagged == [csw EXCEPT !.tag = t.cbw.val.tag]
    IN  [t EXCEPT !.csw = Some(tagged),
                  !.command_buffer =
                      CommandStatusWrapper_push_to_buffer(tagged, t.command_buffer),
                  !.pc = "csw_out"]

\* a target whose Read10 loop ends as soon as read_block returns a CSW,
\* before the block is sent
callback_returned_break_early(t, r, zeros) ==
    IF ~r.ok THEN TargetReturn(t, r)
    ELSE CASE t.pc = "read_capacity" ->
                [t EXCEPT !.csw = Some(r.val.csw),
                          !.command_buffer =
                              ReadCapacityResponse_push_to_buffer(r.val.response,
                                                                  t.command_buffer),
                          !.pc = "resp_out"]
           [] t.pc = "inquiry" ->
                [t EXCEPT !.csw = Some(r.val.csw),
                          !.command_buffer =
                              InquiryResponse_push_to_buffer(r.val.response,
                                                             t.command_buffer),
                          !.pc = "resp_out"]
           [] t.pc \in {"request_sense", "test_unit_ready"} -> send_csw(t, r.val)
           [] t.pc = "read10_start" -> [t EXCEPT !.block = zeros, !.pc = "read_block"]
           [] t.pc = "write10_start" -> [t EXCEPT !.block = zeros, !.pc = "block_in"]
           [] t.pc = "read_block" ->
                IF r.val.csw.some
                THEN send_csw([t EXCEPT !.block = r.val.block], r.val.csw.val)
                ELSE [t EXCEPT !.block = r.val.block, !.csw = r.val.csw,
                               !.pc = "block_out"]
           [] t.pc = "write_block" ->
                IF r.val.some THEN send_csw(t, r.val.val)
                ELSE [t EXCEPT !.pc = "block_in"]

\* a target whose Write10 loop ends after the first block, whatever
\* write_block returned
callback_returned_one_block(t, r, zeros) ==
    IF ~r.ok THEN TargetReturn(t, r)
    ELSE CASE t.pc = "read_capacity" ->
                [t EXCEPT !.csw = Some(r.val.csw),
                          !.command_buffer =
                              ReadCapacityResponse_push_to_buffer(r.val.response,
                                                                  t.command_buffer),
                          !.pc = "resp_out"]
           [] t.pc = "inquiry" ->
                [t EXCEPT !.csw = Some(r.val.csw),
                          !.command_buffer =
                              InquiryResponse_push_to_buffer(r.val.response,
                                                             t.command_buffer),
                          !.pc = "resp_out"]
           [] t.pc \in {"request_sense", "test_unit_ready"} -> send_csw(t, r.val)
           [] t.pc = "read10_start" -> [t EXCEPT !.block = zeros, !.pc = "read_block"]
           [] t.pc = "write10_start" -> [t EXCEPT !.block = zeros, !.pc = "block_in"]
           [] t.pc = "read_block" ->
                [t EXCEPT !.block = r.val.block, !.csw = r.val.csw, !.pc = "block_out"]
           [] t.pc = "write_block" ->
                IF r.val.some THEN send_csw(t, r.val.val)
                ELSE send_csw(t, CommandStatusWrapper_default)

\* a responder callback returned r.  read_capacity and inquiry return a
\* response and a CSW, request_sense and test_unit_ready a CSW, the two
\* start methods nothing, read_block the block it filled and an optional
\* CSW, write_block an optional CSW; zeros is what memory_buffer returns
callback_returned(t, r, zeros) ==
    IF ~r.ok THEN TargetReturn(t, r)
    ELSE CASE t.pc = "read_capacity" ->
                [t EXCEPT !.csw = Some(r.val.csw),
                          !.command_buffer =
                              ReadCapacityResponse_push_to_buffer(r.val.response,
                                                                  t.command_buffer),
                          !.pc = "resp_out"]
           [] t.pc = "inquiry" ->
                [t EXCEPT !.csw = Some(r.val.csw),
                          !.command_buffer =
                              InquiryResponse_push_to_buffer(r.val.response,
                                                             t.command_buffer),
                          !.pc = "resp_out"]
           [] t.pc \in {"request_sense", "test_unit_ready"} -> send_csw(t, r.val)
           [] t.pc = "read10_start" -> [t EXCEPT !.block = zeros, !.pc = "read_block"]
           [] t.pc = "write10_start" -> [t EXCEPT !.block = zeros, !.pc = "block_in"]
           [] t.pc = "read_block" ->
                [t EXCEPT !.block = r.val.block, !.csw = r.val.csw, !.pc = "block_out"]
           [] t.pc = "write_block" ->
                IF r.val.some THEN send_csw(t, r.val.val)
                ELSE [t EXCEPT !.pc = "block_in"]

\* a target that does not look at the count the out_transfer of the CSW
\* returned
out_returned_count_ignored(t, res) ==
    IF ~res.ok THEN TargetReturn(t, res)
    ELSE CASE t.pc = "resp_out" -> send_csw(t, t.csw.val)
           [] t.pc = "block_out" ->
                IF t.csw.some THEN send_csw(t, t.csw.val)
                ELSE [t EXCEPT !.pc = "read_block"]
           [] t.pc = "csw_out" -> TargetReturn(t, Ok(0))

\* an out_transfer returned res (the count accepted): of the response, of
\* a block of a Read10, or of the CSW
out_returned(t, res) ==
    IF ~res.ok THEN TargetReturn(t, res)
    ELSE CASE t.pc = "resp_out" -> send_csw(t, t.csw.val)
           [] t.pc = "block_out" ->
                IF t.csw.some THEN send_csw(t, t.csw.val)
                ELSE [t EXCEPT !.pc = "read_block"]
           [] t.pc = "csw_out" ->
                IF res.val # CBW_SIZE
                THEN TargetReturn(t, Err(BufferTooSmallError(CBW_SIZE, res.val)))
                ELSE TargetReturn(t, Ok(0))

\* a target that asks the channel again when a block came short
block_received_until_full(t, res) ==
    IF ~res.ok THEN TargetReturn(t, res)
    ELSE [t EXCEPT !.block = Overwrite(t.block, 0, res.val),
                   !.pc = IF Len(res.val) < Len(t.block)
                          THEN "block_in" ELSE "write_block"]

\* a target that hands write_block a block buffer the channel did not fill
block_received_dropped(t, res) ==
    IF ~res.ok THEN TargetReturn(t, res)
    ELSE [t EXCEPT !.pc = "write_block"]

\* a target that goes on to write_block when the in_transfer of the block
\* failed
block_received_error_ignored(t, res) ==
    IF ~res.ok THEN [t EXCEPT !.pc = "write_block"]
    ELSE [t EXCEPT !.block = Overwrite(t.block, 0, res.val), !.pc = "write_block"]

\* the in_transfer of a block of a Write10 returned res (the bytes received)
block_received(t, res) ==
    IF ~res.ok THEN TargetReturn(t, res)
    ELSE [t EXCEPT !.block = Overwrite(t.block, 0, res.val), !.pc = "write_block"]

\* a target that sends a response without the rest of the scratch buffer
OutBytes_response_only(t) ==
    IF t.pc = "block_out" THEN t.block
    ELSE IF t.pc = "resp_out"
    THEN Slice(t.command_buffer, 0, IF t.command.kind = "ReadCapacity" THEN 8 ELSE 4)
    ELSE t.command_buffer

\* the bytes the pending out_transfer is given
OutBytes(t) == IF t.pc = "block_out" THEN t.block ELSE t.command_buffer

Callbacks ==
    {"read_capacity", "inquiry", "request_sense", "test_unit_ready",
     "read10_start", "write10_start", "read_block", "write_block"}
OutPoints == {"resp_out", "block_out", "csw_out"}

\* a channel operation of the target as tlog keeps it: the bytes given to
\* out_transfer or received by in_transfer, and the count returned (-1 for
\* an error)
TargetOp(op, bytes, res) ==
    [op |-> op, bytes |-> bytes,
     n |-> IF ~res.ok THEN -1 ELSE IF op = "out" THEN res.val ELSE Len(res.val)]

\* a callback of the responder as tlog keeps it: the method called, whether
\* it returned Ok, the CSW it returned if it returned one, and the block a
\* read_block filled
TargetCall(t, r) ==
    [op |-> "call", name |-> t.pc, ok |-> r.ok,
     csw |-> IF ~r.ok THEN None
             ELSE CASE t.pc \in {"read_capacity", "inquiry"} -> Some(r.val.csw)
                    [] t.pc \in {"request_sense", "test_unit_ready"} -> Some(r.val)
                    [] t.pc \in {"read10_start", "write10_start"} -> None
                    [] t.pc = "read_block" -> r.val.csw
                    [] t.pc = "write_block" -> r.val,
     block |-> IF r.ok /\ t.pc = "read_block" THEN r.val.block ELSE << >>]

(***************************************************************************)
(* The target with an arbitrary responder on an arbitrary channel.  The    *)
(* responder is any implementation of the trait: a callback returns an     *)
(* error or a value of its type, with a CSW of its choice.  The channel    *)
(* delivers a frame of the host's, or fewer bytes, or fails.               *)
(***************************************************************************)
ResponderFault == InvalidDeviceError

\* the tags a host puts in its CBWs (0x12EFCDAB, and 0xFFFFFFFF as -1)
TargetTags == {0, 1, 317705643, -1}
\* the CSWs a callback returns
CallbackTags == {0, 7}
CallbackResidues == {0, 5}
CallbackCsws ==
    { [tag |-> t, data_residue |-> r, status |-> st] :
        t \in CallbackTags, r \in CallbackResidues, st \in CswStatuses }

AnyResponder(len) == [kind |-> "any", block_len |-> len, answered |-> 0, returned |-> None]

\* a responder whose read_block and write_block return Ok(None) to every call
EndlessResponder(len) ==
    [kind |-> "endless", block_len |-> len, answered |-> 0, returned |-> None]

\* ScsiResponder::memory_buffer: a zeroed block
memory_buffer(r) ==
    IF r.kind = "test" THEN Zeros(TEST_BLOCK_LENGTH) ELSE Zeros(r.block_len)

\* the commands a host sends
TargetCommands ==
    { InquiryCommand_new(INQUIRY_MAX_ALLOC), TestUnitReady_new, ReadCapacityCommand_new,
      RequestSenseCommand_new(18),
      [kind |-> "Read10", block_address |-> 0, transfer_bytes |-> 4, transfer_blocks |-> 2],
      [kind |-> "Write10", block_address |-> 1, block_size |-> 2, transfer_blocks |-> 1] }

\* the 31 bytes of a command with a tag of the host's choice
Frame(cmd, tag) ==
    Overwrite(Command_push_to_buffer(cmd, Zeros(CBW_SIZE), TRUE), 4, LE_write_u32(tag))

\* what the in_transfer of the CBW may return: a frame, a frame with an
\* opcode the target does not know, one with a wrong signature, a short one,
\* or an error
CbwArrivals ==
    { Ok(Frame(cmd, tag)) : cmd \in TargetCommands, tag \in TargetTags }
    \cup { Ok(Overwrite(Frame(TestUnitReady_new, 1), CBW_HEADER, << 90 >>)),
           Ok(Overwrite(Frame(TestUnitReady_new, 1), 0, << 85, 83, 66, 83 >>)),
           Ok(Slice(Frame(TestUnitReady_new, 1), 0, CBW_SIZE - 1)),
           Err(ChannelFault) }

\* what a callback of an arbitrary responder may return at this point, with
\* the state it leaves the responder in
\* (returned is the last value a callback returned; the two start methods
\* return none)
CallbackAnswers(t, r) ==
    LET ret(v, r1) == [r |-> v, resp |-> [r1 EXCEPT !.returned = Some(v)]]
        more == [r EXCEPT !.answered = IF r.answered > MaxBlocks THEN r.answered
                                       ELSE r.answered + 1]
        endless == r.kind = "endless" /\ t.pc \in {"read_block", "write_block"}
    IN  IF endless
        THEN { ret(IF t.pc = "read_block"
                   THEN Ok([block |-> Fill(Len(t.block), 171), csw |-> None])
                   ELSE Ok(None), more) }
        ELSE
        { ret(Err(ResponderFault), r) } \cup
        CASE t.pc = "read_capacity" ->
                { ret(Ok([response |-> [logical_block_address |-> 1023,
                                        block_length |-> r.block_len],
                          csw |-> c]), r) : c \in CallbackCsws }
          [] t.pc = "inquiry" ->
                { ret(Ok([response |-> [InquiryResponse_default EXCEPT
                                            !.removable_flags = 128,
                                            !.response_format = 2],
                          csw |-> c]), r) : c \in CallbackCsws }
          [] t.pc \in {"request_sense", "test_unit_ready"} ->
                { ret(Ok(c), r) : c \in CallbackCsws }
          [] t.pc \in {"read10_start", "write10_start"} ->
                { [r |-> Ok(0), resp |-> [r EXCEPT !.answered = 0, !.returned = None]] }
          [] t.pc = "read_block" ->
                { ret(Ok([block |-> t.block, csw |-> Some(c)]), r) : c \in CallbackCsws }
                \cup (IF r.answered < MaxBlocks
                      THEN { ret(Ok([block |-> Fill(Len(t.block), 171), csw |-> None]),
                                 more) }
                      ELSE {})
          [] t.pc = "write_block" ->
                { ret(Ok(Some(c)), r) : c \in CallbackCsws }
                \cup (IF r.answered < MaxBlocks THEN { ret(Ok(None), more) } ELSE {})

\* tlog keeps the operations of one process_command up to the longest log
\* a responder that answers Ok(None) MaxBlocks times can produce; what an
\* endless responder adds beyond that is not kept
MaxLog == 2 * MaxBlocks + 5
Logged(log, e) == IF Len(log) >= MaxLog THEN log ELSE Append(log, e)

\* a caller starts process_command
TargetStart ==
    /\ tgt.pc = "idle" /\ turns < MaxTurns
    /\ tgt' = process_command(tgt)
    /\ tlog' = << >>
    /\ turns' = turns + 1
    /\ UNCHANGED << codecVars, hostVars, wire, resp, queueVars >>

\* the in_transfer of the CBW
TargetCbwIn ==
    /\ tgt.pc = "cbw_in"
    /\ \E res \in CbwArrivals :
         /\ tgt' = cbw_received(tgt, res)
         /\ tlog' = Logged(tlog, TargetOp("in", IF res.ok THEN res.val ELSE << >>, res))
    /\ UNCHANGED << codecVars, hostVars, wire, resp, turns, queueVars >>

\* a callback of the responder
TargetCallback ==
    /\ tgt.pc \in Callbacks
    /\ \E a \in CallbackAnswers(tgt, resp) :
         /\ tgt' = callback_returned(tgt, a.r, memory_buffer(resp))
         /\ resp' = a.resp
         /\ tlog' = Logged(tlog, TargetCall(tgt, a.r))
    /\ UNCHANGED << codecVars, hostVars, wire, turns, queueVars >>

\* an out_transfer: of a response, a block or the CSW
TargetOut ==
    /\ tgt.pc \in OutPoints
    /\ \E res \in { Ok(Len(OutBytes(tgt))), Ok(Len(OutBytes(tgt)) - 1),
                    Err(ChannelFault) } :
         /\ tgt' = out_returned(tgt, res)
         /\ tlog' = Logged(tlog, TargetOp("out", OutBytes(tgt), res))
    /\ UNCHANGED << codecVars, hostVars, wire, resp, turns, queueVars >>

\* the in_transfer of a block of a Write10
TargetBlockIn ==
    /\ tgt.pc = "block_in"
    /\ \E res \in { Ok(Fill(Len(tgt.block), 255)), Ok(<< 255 >>), Ok(<< >>),
                    Err(ChannelFault) } :
         /\ tgt' = block_received(tgt, res)
         /\ tlog' = Logged(tlog, TargetOp("in", IF res.ok THEN res.val ELSE << >>, res))
    /\ UNCHANGED << codecVars, hostVars, wire, resp, turns, queueVars >>

\* no host: the handle is never constructed
NoHost ==
    /\ dev = [state |-> "none", in_buffer |-> Buffer_new(0), out_buffer |-> Buffer_new(0),
              scratch_buffer |-> Buffer_new(0), block_size |-> 0, prev_csw |-> None]
    /\ call = IdleCall
    /\ user = Buffer_new(0)
    /\ arg = [offset |-> 0, cap |-> 0, size |-> 0, before |-> "none"]
    /\ ops = << >> /\ cbwLog = << >> /\ ncalls = 0 /\ wire = << >>

TargetInit ==
    /\ NoHost /\ NoCodec
    /\ tgt = IdleTarget
    /\ resp \in { AnyResponder(len) : len \in {2} }
    /\ tlog = << >>
    /\ turns = 0
    /\ h2d = << >> /\ d2h = << >> /\ done = << >> /\ clearing = "none"

TargetNext ==
    \/ TargetStart
    \/ TargetCbwIn
    \/ TargetCallback
    \/ TargetOut
    \/ TargetBlockIn

TargetSpec == TargetInit /\ [][TargetNext]_vars

\* C2: when process_command has returned Ok, its last channel operation is
\* an out_transfer whose bytes start with the CSW signature followed by the
\* four tag bytes of the CBW it received, whatever tag the CSW returned by
\* the callback had.
C2_CswEchoesCbwTag ==
    (tgt.pc = "idle" /\ tgt.result = Some(Ok(0))) =>
        LET sent == tlog[Len(tlog)]
            received == tlog[1]
        IN  /\ received.op = "in" /\ received.n = CBW_SIZE
            /\ sent.op = "out"
            /\ Slice(sent.bytes, 0, 4) = LE_write_u32(D_CSW_SIGNATURE)
            /\ Slice(sent.bytes, 4, 4) = Slice(received.bytes, 4, 4)

\* a REQUEST SENSE with tag 0x12EFCDAB has passed through a callback that
\* returned a CSW with tag 7
C2_Witness ==
    /\ tgt.pc = "idle" /\ tgt.result = Some(Ok(0))
    /\ tgt.command.kind = "RequestSense"
    /\ resp.returned.val.val.tag = 7
    /\ Slice(tlog[Len(tlog)].bytes, 4, 4) = << 171, 205, 239, 18 >>

\* the opcodes ScsiCommand::pull_from_buffer knows
KnownOpcodes ==
    { opcode(k) : k \in {"Inquiry", "Read10", "ReadCapacity", "RequestSense",
                         "TestUnitReady", "Write10"} }

\* process_command has received 31 bytes that start with the CBW signature
CbwArrived ==
    /\ tlog # << >>
    /\ tlog[1].op = "in" /\ tlog[1].n = CBW_SIZE
    /\ Slice(tlog[1].bytes, 0, 4) = LE_write_u32(D_CBW_SIGNATURE)

\* C13: when process_command has received a CBW of 31 bytes with the CBW
\* signature whose byte 15 is none of 0x00, 0x03, 0x12, 0x25, 0x28, 0x2A, it
\* has returned UnsupportedOperationError, and the in_transfer of the CBW is
\* all it did: no callback of the responder, no out_transfer.
C13_UnknownOpcode ==
    (CbwArrived /\ tlog[1].bytes[16] \notin KnownOpcodes) =>
        /\ tgt.pc = "idle"
        /\ tgt.result = Some(Err(UnsupportedOperationError))
        /\ Len(tlog) = 1

\* process_command has received a CBW with opcode 0x5A
C13_Witness ==
    /\ CbwArrived /\ tlog[1].bytes[16] = 90
    /\ tgt.pc = "idle" /\ tgt.result = Some(Err(UnsupportedOperationError))

\* the places in tlog of the callbacks that returned a CSW
CswCalls == { i \in 1..Len(tlog) : tlog[i].op = "call" /\ tlog[i].csw.some }

\* process_command has sent its CSW: it has returned after an out_transfer
\* that the channel accepted (an accepted out_transfer of a response or of a
\* block is followed by another operation)
CswSent ==
    /\ tgt.pc = "idle" /\ tlog # << >>
    /\ tlog[Len(tlog)].op = "out" /\ tlog[Len(tlog)].n >= 0

\* C14: the CSW process_command sends has the status and the data_residue of
\* the CSW the responder's callback returned, for every command; for Read10
\* and Write10 this is the one block callback that returned Some.  The
\* library never puts another status, PASSED or not, in its place.
C14_CswFromCallback ==
    CswSent =>
        /\ Cardinality(CswCalls) = 1
        /\ LET sent == tlog[Len(tlog)].bytes
               returned == tlog[CHOOSE i \in CswCalls : TRUE].csw.val
           IN  /\ Slice(sent, 0, 4) = LE_write_u32(D_CSW_SIGNATURE)
               /\ LE_read_u32(sent, 8) = returned.data_residue
               /\ sent[13] = returned.status

\* a Write10 whose write_block returned a CSW with status FAILED and residue
\* 5, after one that returned None
C14_Witness ==
    /\ CswSent
    /\ tgt.command.kind = "Write10"
    /\ tlog[Len(tlog)].bytes[13] = COMMAND_FAILED
    /\ LE_read_u32(tlog[Len(tlog)].bytes, 8) = 5
    /\ \E i \in 1..Len(tlog) :
          tlog[i].op = "call" /\ tlog[i].name = "write_block" /\ ~tlog[i].csw.some

\* entry i of tlog is a call of the method name that returned Ok
IsCall(i, name) == tlog[i].op = "call" /\ tlog[i].name = name /\ tlog[i].ok
\* entry i of tlog is an out_transfer that the channel accepted
IsOut(i) == tlog[i].op = "out" /\ tlog[i].n >= 0

\* C15: while process_command handles a Read10, what follows the CBW is: one
\* call of read10_start; then calls of read_block, each followed by one
\* out_transfer of the block it filled before anything else happens, also
\* the call that returns Some(csw); no read_block after the one that returned
\* Some; and the out_transfer of the CSW only after the out_transfer of that
\* last block.
C15_Read10Order ==
    (tgt.command.kind = "Read10" /\ Len(tlog) >= 2) =>
        /\ tlog[2].op = "call" /\ tlog[2].name = "read10_start"
        /\ \A i \in 3..Len(tlog) :
            /\ tlog[i].op \in {"call", "out"}
            /\ tlog[i].op = "call" =>
                /\ tlog[i].name = "read_block"
                /\ \/ i = 3 /\ IsCall(2, "read10_start")
                   \/ /\ i > 4 /\ IsOut(i - 1)
                      /\ IsCall(i - 2, "read_block") /\ ~tlog[i - 2].csw.some
            /\ tlog[i].op = "out" =>
                \/ /\ IsCall(i - 1, "read_block")
                   /\ tlog[i].bytes = tlog[i - 1].block
                \/ /\ i > 4 /\ IsOut(i - 1)
                   /\ IsCall(i - 2, "read_block") /\ tlog[i - 2].csw.some
                   /\ Slice(tlog[i].bytes, 0, 4) = LE_write_u32(D_CSW_SIGNATURE)
                   /\ i = Len(tlog) /\ tgt.pc = "idle"
        /\ LET n == Len(tlog)
           IN  /\ IsCall(n, "read10_start") => tgt.pc = "read_block"
               /\ IsCall(n, "read_block") => tgt.pc = "block_out"
               /\ (n > 3 /\ IsOut(n) /\ IsCall(n - 1, "read_block")) =>
                     tgt.pc = (IF tlog[n - 1].csw.some THEN "csw_out" ELSE "read_block")

\* a Read10 has passed after a read_block that returned None and one that
\* returned a CSW: seven entries, the last two the block and the CSW
C15_Witness ==
    /\ tgt.command.kind = "Read10" /\ tgt.pc = "idle" /\ tgt.result = Some(Ok(0))
    /\ Len(tlog) = 7
    /\ IsCall(3, "read_block") /\ ~tlog[3].csw.some
    /\ IsCall(5, "read_block") /\ tlog[5].csw.some
    /\ IsOut(6) /\ IsOut(7)

\* entry i of tlog is an in_transfer that returned Ok
IsIn(i) == tlog[i].op = "in" /\ tlog[i].n >= 0

\* C16: while process_command handles a Write10, what follows the CBW is: one
\* call of write10_start, before any in_transfer of data; then in_transfers
\* into the block buffer, each followed by one call of write_block before
\* anything else happens, so that every write_block, also the one that
\* returns Some(csw), has exactly one in_transfer between it and the callback
\* before it; nothing is received after the write_block that returned Some;
\* and the out_transfer of the CSW comes right after that call.
C16_Write10Order ==
    (tgt.command.kind = "Write10" /\ Len(tlog) >= 2) =>
        /\ tlog[2].op = "call" /\ tlog[2].name = "write10_start"
        /\ \A i \in 3..Len(tlog) :
            /\ tlog[i].op = "in" =>
                \/ i = 3 /\ IsCall(2, "write10_start")
                \/ i > 3 /\ IsCall(i - 1, "write_block") /\ ~tlog[i - 1].csw.some
            /\ tlog[i].op = "call" =>
                /\ tlog[i].name = "write_block"
                /\ IsIn(i - 1)
            /\ tlog[i].op = "out" =>
                /\ IsCall(i - 1, "write_block") /\ tlog[i - 1].csw.some
                /\ Slice(tlog[i].bytes, 0, 4) = LE_write_u32(D_CSW_SIGNATURE)
                /\ i = Len(tlog) /\ tgt.pc = "idle"
        /\ LET n == Len(tlog)
           IN  /\ IsCall(n, "write10_start") => tgt.pc = "block_in"
               /\ (n > 2 /\ IsIn(n)) => tgt.pc = "write_block"
               /\ IsCall(n, "write_block") =>
                     tgt.pc = (IF tlog[n].csw.some THEN "csw_out" ELSE "block_in")

\* a Write10 has passed after a write_block that returned None and one that
\* returned a CSW, the second on a block that came short
C16_Witness ==
    /\ tgt.command.kind = "Write10" /\ tgt.pc = "idle" /\ tgt.result = Some(Ok(0))
    /\ Len(tlog) = 7
    /\ IsIn(3) /\ IsCall(4, "write_block") /\ ~tlog[4].csw.some
    /\ IsIn(5) /\ tlog[5].n = 1
    /\ IsCall(6, "write_block") /\ tlog[6].csw.some
    /\ IsOut(7)

\* the out_transfers of the process_command that tlog follows
OutTransfers == SelectSeq(tlog, LAMBDA e : e.op = "out")

\* process_command has returned Ok from a READ CAPACITY or an INQUIRY
ResponseCommandDone ==
    /\ tgt.pc = "idle" /\ tgt.result = Some(Ok(0))
    /\ tgt.command.kind \in {"ReadCapacity", "Inquiry"}

\* C35: when process_command has returned Ok from a READ CAPACITY or an
\* INQUIRY it has made exactly two out_transfers, each of 31 bytes: the
\* first starts with the encoded response the callback returned (8 bytes
\* for READ CAPACITY, 4 for INQUIRY), the second with the CSW signature, so
\* the CSW is at offset 31 of the bytes handed to the channel.
C35_ResponseThenCsw ==
    ResponseCommandDone =>
        LET response == resp.returned.val.val.response
            stream == OutTransfers[1].bytes \o OutTransfers[2].bytes
        IN  /\ Len(OutTransfers) = 2
            /\ Len(OutTransfers[1].bytes) = CBW_SIZE
            /\ Len(OutTransfers[2].bytes) = CBW_SIZE
            /\ IF tgt.command.kind = "ReadCapacity"
               THEN Slice(OutTransfers[1].bytes, 0, 8) =
                       ReadCapacityResponse_push_to_buffer(response, Zeros(8))
               ELSE Slice(OutTransfers[1].bytes, 0, 4) =
                       InquiryResponse_push_to_buffer(response, Zeros(4))
            /\ Slice(stream, CBW_SIZE, CSW_SIZE) = CswBytes(tgt.csw.val)
            /\ tgt.csw.val.tag = tgt.cbw.val.tag

\* a READ CAPACITY answered with last block 1023 and block length 2: the
\* first packet starts with the two big-endian words
C35_Witness ==
    /\ ResponseCommandDone /\ tgt.command.kind = "ReadCapacity"
    /\ Len(OutTransfers) = 2
    /\ Slice(OutTransfers[1].bytes, 0, 8) = << 0, 0, 3, 255, 0, 0, 0, 2 >>
    /\ Slice(OutTransfers[2].bytes, 0, 4) = LE_write_u32(D_CSW_SIGNATURE)

\* process_command has returned and its last channel operation was the
\* out_transfer of the CSW, which the channel answered with a count (the
\* out_transfer of a response or of a block ends the call only by failing)
CswTransferCounted ==
    /\ tgt.pc = "idle" /\ tlog # << >>
    /\ tlog[Len(tlog)].op = "out" /\ tlog[Len(tlog)].n >= 0

\* C36: when the in_transfer of the CBW delivered a number of bytes other
\* than 31, process_command has returned UsbTransferError{In} and that
\* in_transfer is all it did; process_command has returned Ok only after an
\* out_transfer of the CSW that reported 31 bytes, and any other count
\* reported for the CSW makes it return BufferTooSmallError.
C36_CountsChecked ==
    (tgt.pc = "idle" /\ tlog # << >>) =>
        /\ (tlog[1].n >= 0 /\ tlog[1].n # CBW_SIZE) =>
              /\ tgt.result = Some(Err(UsbTransferError("In")))
              /\ Len(tlog) = 1
        /\ tgt.result = Some(Ok(0)) =>
              /\ CswTransferCounted
              /\ tlog[Len(tlog)].n = CBW_SIZE
              /\ Slice(tlog[Len(tlog)].bytes, 0, 4) = LE_write_u32(D_CSW_SIGNATURE)
        /\ (CswTransferCounted /\ tlog[Len(tlog)].n # CBW_SIZE) =>
              tgt.result =
                 Some(Err(BufferTooSmallError(CBW_SIZE, tlog[Len(tlog)].n)))

\* the channel took 30 bytes of the CSW packet of a TEST UNIT READY
C36_Witness ==
    /\ CswTransferCounted /\ tgt.command.kind = "TestUnitReady"
    /\ tlog[Len(tlog)].n = CBW_SIZE - 1
    /\ tgt.result = Some(Err(BufferTooSmallError(CBW_SIZE, CBW_SIZE - 1)))

\* the out_transfers of tlog that were given a CSW packet
CswPackets ==
    { i \in 1..Len(tlog) :
        /\ tlog[i].op = "out" /\ Len(tlog[i].bytes) >= 4
        /\ Slice(tlog[i].bytes, 0, 4) = LE_write_u32(D_CSW_SIGNATURE) }

\* entry i of tlog is a callback that returned Err
CallbackFailed(i) == tlog[i].op = "call" /\ ~tlog[i].ok
\* entry i of tlog is a channel transfer of the data phase that returned Err
DataTransferFailed(i) ==
    /\ i > 1 /\ tlog[i].op \in {"in", "out"} /\ tlog[i].n = -1
    /\ i \notin CswPackets
\* the in_transfer of the CBW delivered 31 bytes that do not decode
CbwUndecoded ==
    /\ tlog # << >> /\ tlog[1].n = CBW_SIZE
    /\ \/ ~CommandBlockWrapper_pull_from_buffer(tlog[1].bytes).ok
       \/ ~ScsiCommand_pull_from_buffer(tlog[1].bytes).ok

\* C37: a CBW that does not decode, a callback that returns Err and a
\* channel transfer of the data phase that returns Err are each the last
\* thing process_command does: it has returned that error and has given the
\* channel no CSW packet.
C37_ErrorsPropagate ==
    /\ CbwUndecoded =>
          /\ Len(tlog) = 1 /\ tgt.pc = "idle"
          /\ tgt.result =
                Some(IF ~CommandBlockWrapper_pull_from_buffer(tlog[1].bytes).ok
                     THEN CommandBlockWrapper_pull_from_buffer(tlog[1].bytes)
                     ELSE ScsiCommand_pull_from_buffer(tlog[1].bytes))
    /\ \A i \in 1..Len(tlog) :
          (CallbackFailed(i) \/ DataTransferFailed(i)) =>
              /\ i = Len(tlog) /\ tgt.pc = "idle"
              /\ tgt.result = Some(Err(IF CallbackFailed(i) THEN ResponderFault
                                       ELSE ChannelFault))
              /\ CswPackets = {}

\* the in_transfer of the block of a Write10 failed
C37_Witness ==
    /\ tgt.pc = "idle" /\ tgt.command.kind = "Write10"
    /\ Len(tlog) = 3 /\ DataTransferFailed(3) /\ tlog[3].op = "in"
    /\ tgt.result = Some(Err(ChannelFault))

(***************************************************************************)
(* The target when every call it makes returns: a channel operation or a   *)
(* callback that is pending is answered in the end.  The responder is an   *)
(* arbitrary one, whose block callbacks answer Ok(None) a bounded number   *)
(* of times, or an endless one.  process_command keeps nothing from one    *)
(* call to the next, so the call followed is the last one the bound on     *)
(* turns allows.                                                           *)
(***************************************************************************)
TargetFairInit ==
    /\ NoHost /\ NoCodec
    /\ tgt = IdleTarget
    /\ resp \in { AnyResponder(2), EndlessResponder(2) }
    /\ tlog = << >>
    /\ turns = MaxTurns - 1
    /\ h2d = << >> /\ d2h = << >> /\ done = << >> /\ clearing = "none"

\* every step of process_command moves tgt.pc, so a step that changes tgt
\* is a step of the action
TargetFairSpec ==
    /\ TargetFairInit /\ [][TargetNext]_vars
    /\ WF_tgt(TargetCbwIn) /\ WF_tgt(TargetCallback)
    /\ WF_tgt(TargetOut) /\ WF_tgt(TargetBlockIn)

\* process_command is in the loop of a Read10 or of a Write10
InBlockLoop == tgt.pc \in {"read_block", "block_out", "block_in", "write_block"}

\* the last answer of the responder was a block callback's Some(csw)
BlockCallbackReturnedCsw ==
    /\ resp.returned.some /\ resp.returned.val.ok
    /\ IF tgt.command.kind = "Read10"
       THEN resp.returned.val.val.csw.some
       ELSE resp.returned.val.val.some

\* C34: in the loop of a Read10 or a Write10, process_command returns in
\* the end when the block callback stops answering Ok(None) after finitely
\* many calls and every call it makes returns; it leaves the loop only to
\* send the CSW a block callback returned or to return the error of a
\* callback or of the channel, however many blocks it has handled, so with
\* an endless responder it leaves it only on a channel error and never
\* sends a CSW.
C34_BlockLoopEnds ==
    /\ (resp.kind = "any" /\ InBlockLoop) ~> (tgt.pc = "idle")
    /\ [][(InBlockLoop /\ ~InBlockLoop') =>
             /\ \/ tgt'.pc = "csw_out" /\ BlockCallbackReturnedCsw'
                \/ /\ tgt'.pc = "idle"
                   /\ tgt'.result \in {Some(Err(ChannelFault)), Some(Err(ResponderFault))}
             /\ resp.kind = "endless" =>
                   tgt'.pc = "idle" /\ tgt'.result = Some(Err(ChannelFault))]_tgt

\* an endless responder has answered more block callbacks of a Read10 than
\* the command's transfer_blocks, and process_command calls it again
C34_Witness ==
    /\ resp.kind = "endless" /\ tgt.command.kind = "Read10"
    /\ tgt.pc = "read_block"
    /\ resp.answered > tgt.command.transfer_blocks

(***************************************************************************)
(* The test responder and the test channel (scsi/responder.rs, tests).     *)
(***************************************************************************)
\* TestResponder::default; buffer holds the blocks that have been written,
\* every other block of the 1024 is zero
TestResponder_default ==
    [kind |-> "test", buffer |-> << >>,
     read_cursor |-> 0, read_size |-> 0, write_cursor |-> 0, write_size |-> 0]

\* block i of the responder's buffer (i counted from 0)
StoredBlock(r, i) ==
    IF i + 1 \in DOMAIN r.buffer THEN r.buffer[i + 1] ELSE Zeros(TEST_BLOCK_LENGTH)

\* the responder's buffer with block i replaced
StoreBlock(r, i, block) ==
    [k \in 1..(IF i + 1 > Len(r.buffer) THEN i + 1 ELSE Len(r.buffer)) |->
        IF k = i + 1 THEN block ELSE StoredBlock(r, k - 1)]

\* the block at cursor lies outside the 1024 blocks of the buffer, so the
\* slice of it panics; the cursor is the block_address as a usize, and a
\* word with bit 31 set is an address of 2^31 or more
OutOfStorage(cursor) == cursor < 0 \/ cursor >= TEST_BLOCKS

\* the callback process_command is about to make, on the test responder:
\* what it returns and the state it leaves the responder in
TestResponder_call(t, r) ==
    CASE t.pc = "read_capacity" ->
            [r |-> Ok([response |-> [logical_block_address |-> 0,
                                     block_length |-> TEST_BLOCK_LENGTH],
                       csw |-> CommandStatusWrapper_default]),
             resp |-> r]
      [] t.pc = "inquiry" ->
            [r |-> Ok([response |-> InquiryResponse_default,
                       csw |-> CommandStatusWrapper_default]),
             resp |-> r]
      [] t.pc \in {"request_sense", "test_unit_ready"} ->
            [r |-> Ok(CommandStatusWrapper_default), resp |-> r]
      [] t.pc = "read10_start" ->
            [r |-> Ok(0),
             resp |-> [r EXCEPT !.read_cursor = t.command.block_address,
                                !.read_size = t.command.transfer_blocks]]
      [] t.pc = "read_block" ->
            IF r.read_size = 0
            THEN [r |-> Ok([block |-> t.block,
                            csw |-> Some(CommandStatusWrapper_default)]),
                  resp |-> r]
            ELSE IF Len(t.block) # TEST_BLOCK_LENGTH
            THEN [r |-> Err(BufferTooSmallError(TEST_BLOCK_LENGTH, Len(t.block))),
                  resp |-> r]
            ELSE IF OutOfStorage(r.read_cursor) THEN [r |-> Err(Panic), resp |-> r]
            ELSE [r |-> Ok([block |-> StoredBlock(r, r.read_cursor), csw |-> None]),
                  resp |-> [r EXCEPT !.read_cursor = r.read_cursor + 1,
                                     !.read_size = r.read_size - 1]]
      [] t.pc = "write10_start" ->
            [r |-> Ok(0),
             resp |-> [r EXCEPT !.write_cursor = t.command.block_address,
                                !.write_size = t.command.transfer_blocks]]
      [] t.pc = "write_block" ->
            IF r.write_size = 0
            THEN [r |-> Ok(Some(CommandStatusWrapper_default)), resp |-> r]
            ELSE IF Len(t.block) # TEST_BLOCK_LENGTH
            THEN [r |-> Err(BufferTooSmallError(TEST_BLOCK_LENGTH, Len(t.block))),
                  resp |-> r]
            ELSE IF OutOfStorage(r.write_cursor) THEN [r |-> Err(Panic), resp |-> r]
            ELSE [r |-> Ok(None),
                  resp |-> [r EXCEPT !.buffer = StoreBlock(r, r.write_cursor, t.block),
                                     !.write_cursor = r.write_cursor + 1,
                                     !.write_size = r.write_size - 1]]

\* TestDualChannel::out_transfer: every byte is appended to the send queue
TestDualChannel_out_transfer(queue, bytes) == queue \o bytes

\* TestDualChannel::in_transfer into a slice of len bytes: what the receive
\* queue holds, up to len bytes, is taken off its front; it never waits
TestDualChannel_in_transfer(queue, len) ==
    LET count == IF len < Len(queue) THEN len ELSE Len(queue)
    IN  [read |-> Slice(queue, 0, count), queue |-> Rest(queue, count)]

(***************************************************************************)
(* Host and target as two processes on a TestDualChannel pair.  The host   *)
(* is a handle as new returns it from a device of block length 256; the    *)
(* target is process_command, called again and again, on a TestResponder.  *)
(* Between two host calls, with the target at rest, the test may clear     *)
(* the queues (TestDualChannel::clear).  The buffers of the handle are     *)
(* ones whose clear() never fails.                                         *)
(***************************************************************************)
LoopOffsets == {0, TEST_BLOCK_LENGTH}

\* the handle new returns once INQUIRY, TEST UNIT READY and READ CAPACITY
\* have passed on a device of block length 256
ConstructedHandle ==
    [state |-> "ok",
     in_buffer |-> [cap |-> INQUIRY_MAX_ALLOC,
                    data |-> ReadCapacityResponse_push_to_buffer(
                                [logical_block_address |-> 0,
                                 block_length |-> TEST_BLOCK_LENGTH], Zeros(8))],
     out_buffer |-> Buffer_new(0),
     scratch_buffer |-> [cap |-> CBW_SIZE,
                         data |-> Zeros(CBW_SIZE - CSW_SIZE)
                                  \o CswBytes(CommandStatusWrapper_default)],
     block_size |-> TEST_BLOCK_LENGTH,
     prev_csw |-> Some([CommandStatusWrapper_default EXCEPT !.tag = SEED_TAG])]

\* the calls that have returned, with the call of h if it has
Finished(h, offset) ==
    IF h.call.name = "none"
    THEN Append(done, [name |-> h.call.last, offset |-> offset,
                       result |-> h.call.result.val, data |-> h.user.data])
    ELSE done

\* the caller writes one block of 0xFF
LoopWrite ==
    /\ dev.state = "ok" /\ call.name = "none" /\ ncalls < MaxCalls
    /\ \E offset \in LoopOffsets :
         LET h == write(HostState, offset,
                        [cap |-> TEST_BLOCK_LENGTH, data |-> Fill(TEST_BLOCK_LENGTH, 255)],
                        0)
         IN  /\ Apply(h)
             /\ arg' = [offset |-> offset, cap |-> TEST_BLOCK_LENGTH,
                        size |-> TEST_BLOCK_LENGTH, before |-> "none"]
             /\ done' = Finished(h, offset)
    /\ ncalls' = ncalls + 1
    /\ ops' = << >>
    /\ UNCHANGED << codecVars, cbwLog, wire, targetVars, h2d, d2h, clearing >>

\* the caller reads one block into an empty buffer
LoopRead ==
    /\ dev.state = "ok" /\ call.name = "none" /\ ncalls < MaxCalls
    /\ \E offset \in LoopOffsets :
         LET h == read(HostState, offset, Buffer_new(TEST_BLOCK_LENGTH), 0)
         IN  /\ Apply(h)
             /\ arg' = [offset |-> offset, cap |-> TEST_BLOCK_LENGTH, size |-> 0,
                        before |-> "none"]
             /\ done' = Finished(h, offset)
    /\ ncalls' = ncalls + 1
    /\ ops' = << >>
    /\ UNCHANGED << codecVars, cbwLog, wire, targetVars, h2d, d2h, clearing >>

\* push_command's out_transfer of the CBW
LoopCbwOut ==
    /\ call.phase = "cbw"
    /\ LET bytes == dev.scratch_buffer.data
           h == push_command(HostState, Ok(Len(bytes)), 0)
       IN  /\ Apply(h)
           /\ h2d' = TestDualChannel_out_transfer(h2d, bytes)
           /\ ops' = << OpEntry("cbw", "out", Len(bytes), Ok(Len(bytes))) >>
           /\ done' = Finished(h, arg.offset)
    /\ cbwLog' = Append(cbwLog, CbwEntry(HostState))
    /\ UNCHANGED << codecVars, arg, ncalls, wire, targetVars, d2h, clearing >>

\* one out_transfer of the host's OUT data phase
LoopDataOut ==
    /\ call.phase = "data" /\ command_wrapper(call.cmd).direction # "IN"
    /\ LET bytes == OutSource(HostState).data
           h == data_out(HostState, Ok(Len(bytes)), 0)
       IN  /\ Apply(h)
           /\ h2d' = TestDualChannel_out_transfer(h2d, bytes)
           /\ ops' = Append(ops, OpEntry("data", "out", Len(bytes), Ok(Len(bytes))))
           /\ done' = Finished(h, arg.offset)
    /\ UNCHANGED << codecVars, arg, cbwLog, ncalls, wire, targetVars, d2h, clearing >>

\* one in_transfer of the host's IN data phase; the host polls an empty
\* queue a bounded number of times
LoopDataIn ==
    /\ call.phase = "data" /\ command_wrapper(call.cmd).direction = "IN"
    /\ d2h # << >> \/ call.ndata + 1 < MaxDataOps
    /\ LET room == capacity(InTarget(HostState)) - size(InTarget(HostState))
           got == TestDualChannel_in_transfer(d2h, room)
           h == data_in(HostState, Ok(got.read), 0)
       IN  /\ Apply(h)
           /\ d2h' = got.queue
           /\ ops' = Append(ops, OpEntry("data", "in", room, Ok(got.read)))
           /\ done' = Finished(h, arg.offset)
    /\ UNCHANGED << codecVars, arg, cbwLog, ncalls, wire, targetVars, h2d, clearing >>

\* read_csw's in_transfer
LoopCswIn ==
    /\ call.phase = "csw"
    /\ \E overflow_checks \in BOOLEAN :
       LET got == TestDualChannel_in_transfer(d2h, CSW_SIZE)
           h == read_csw(HostState, Ok(got.read), overflow_checks, 0)
       IN  /\ Apply(h)
           /\ d2h' = got.queue
           /\ ops' = Append(ops, OpEntry("csw", "in", CSW_SIZE, Ok(got.read)))
           /\ done' = Finished(h, arg.offset)
    /\ UNCHANGED << codecVars, arg, cbwLog, ncalls, wire, targetVars, h2d, clearing >>

\* the target's loop calls process_command
LoopTargetStart ==
    /\ tgt.pc = "idle" /\ turns < MaxTurns
    /\ tgt' = process_command(tgt)
    /\ tlog' = << >>
    /\ turns' = turns + 1
    /\ UNCHANGED << codecVars, hostVars, wire, resp, queueVars >>

\* the target's in_transfer of the CBW
LoopTargetCbwIn ==
    /\ tgt.pc = "cbw_in"
    /\ LET got == TestDualChannel_in_transfer(h2d, CBW_SIZE)
       IN  /\ tgt' = cbw_received(tgt, Ok(got.read))
           /\ h2d' = got.queue
           /\ tlog' = Append(tlog, TargetOp("in", got.read, Ok(got.read)))
    /\ UNCHANGED << codecVars, hostVars, wire, resp, turns, d2h, done, clearing >>

\* a callback of the test responder
LoopTargetCallback ==
    /\ tgt.pc \in Callbacks
    /\ LET a == TestResponder_call(tgt, resp)
       IN  /\ tgt' = callback_returned(tgt, a.r, memory_buffer(resp))
           /\ resp' = a.resp
           /\ tlog' = Append(tlog, TargetCall(tgt, a.r))
    /\ UNCHANGED << codecVars, hostVars, wire, turns, queueVars >>

\* an out_transfer of the target
LoopTargetOut ==
    /\ tgt.pc \in OutPoints
    /\ LET bytes == OutBytes(tgt)
       IN  /\ tgt' = out_returned(tgt, Ok(Len(bytes)))
           /\ d2h' = TestDualChannel_out_transfer(d2h, bytes)
           /\ tlog' = Append(tlog, TargetOp("out", bytes, Ok(Len(bytes))))
    /\ UNCHANGED << codecVars, hostVars, wire, resp, turns, h2d, done, clearing >>

\* the target's in_transfer of a block of a Write10
LoopTargetBlockIn ==
    /\ tgt.pc = "block_in"
    /\ LET got == TestDualChannel_in_transfer(h2d, Len(tgt.block))
       IN  /\ tgt' = block_received(tgt, Ok(got.read))
           /\ h2d' = got.queue
           /\ tlog' = Append(tlog, TargetOp("in", got.read, Ok(got.read)))
    /\ UNCHANGED << codecVars, hostVars, wire, resp, turns, d2h, done, clearing >>

\* TestDualChannel::clear up to the release of its first lock: a thread
\* that holds one of the two handles empties the send queue of that handle
LoopClearSend ==
    /\ clearing = "none"
    /\ \E handle \in {"forward", "reversed"} :
         /\ clearing' = handle
         /\ h2d' = IF handle = "forward" THEN << >> ELSE h2d
         /\ d2h' = IF handle = "reversed" THEN << >> ELSE d2h
    /\ UNCHANGED << codecVars, hostVars, wire, targetVars, done >>

\* the rest of TestDualChannel::clear: the receive queue of the handle is
\* emptied under its own lock
LoopClearRecv ==
    /\ clearing # "none"
    /\ h2d' = IF clearing = "reversed" THEN << >> ELSE h2d
    /\ d2h' = IF clearing = "forward" THEN << >> ELSE d2h
    /\ clearing' = "none"
    /\ UNCHANGED << codecVars, hostVars, wire, targetVars, done >>

LoopInit ==
    /\ NoCodec
    /\ dev = ConstructedHandle
    /\ call = IdleCall
    /\ user = Buffer_new(0)
    /\ arg = [offset |-> 0, cap |-> 0, size |-> 0, before |-> "none"]
    /\ ops = << >> /\ cbwLog = << >> /\ ncalls = 0 /\ wire = << >>
    /\ tgt = IdleTarget
    /\ resp = TestResponder_default
    /\ tlog = << >>
    /\ turns = 0
    /\ h2d = << >> /\ d2h = << >> /\ done = << >> /\ clearing = "none"

LoopNext ==
    \/ LoopWrite
    \/ LoopRead
    \/ LoopCbwOut
    \/ LoopDataOut
    \/ LoopDataIn
    \/ LoopCswIn
    \/ LoopTargetStart
    \/ LoopTargetCbwIn
    \/ LoopTargetCallback
    \/ LoopTargetOut
    \/ LoopTargetBlockIn
    \/ LoopClearSend
    \/ LoopClearRecv

LoopSpec == LoopInit /\ [][LoopNext]_vars

\* LoopSpec with clear() called only as test_exchange calls it: between two
\* host calls with the target at rest, and run to its end before host or
\* target moves
ClearAtRest ==
    /\ clearing = "none" /\ clearing' # "none" => call.name = "none" /\ tgt.pc = "idle"
    /\ clearing # "none" => clearing' = "none"

LoopQuietSpec == LoopInit /\ [][LoopNext /\ ClearAtRest]_vars

\* C3: when the host has written one block of 0xFF and then read the same
\* address, over the queues and against the test responder, both calls have
\* returned Ok (so both CSWs were accepted as PASSED) and the read has
\* delivered the 256 bytes written.
C3_WriteThenReadRoundTrip ==
    (/\ Len(done) = 2
     /\ done[1].name = "write" /\ done[2].name = "read"
     /\ done[1].offset = done[2].offset)
    => /\ done[1].result = Ok(TEST_BLOCK_LENGTH)
       /\ done[2].result = Ok(TEST_BLOCK_LENGTH)
       /\ done[2].data = Fill(TEST_BLOCK_LENGTH, 255)

\* the write has passed and the block is in the responder's buffer
LoopWritten ==
    /\ Len(done) >= 1 /\ done[1].name = "write"
    /\ done[1].result = Ok(TEST_BLOCK_LENGTH)
    /\ StoredBlock(resp, done[1].offset \div TEST_BLOCK_LENGTH)
          = Fill(TEST_BLOCK_LENGTH, 255)

\* the read that follows a write that passed has returned Ok
LoopReadPassed ==
    /\ LoopWritten
    /\ Len(done) = 2 /\ done[2].name = "read"
    /\ done[2].result.ok

(***************************************************************************)
(* The target driven as test_exchange drives it: the test clears both      *)
(* queues, puts a CBW on the channel (and after a Write10 CBW the block to *)
(* write), then calls process_command on the TestResponder and lets it     *)
(* return before it sends the next command.                                *)
(***************************************************************************)
ExchangeAddresses == {0, 1}
ExchangeBlocks == { Fill(TEST_BLOCK_LENGTH, 255), Fill(TEST_BLOCK_LENGTH, 7) }

\* the test sends a Write10 of one block, with the block or without
ExchangeSendWrite ==
    /\ tgt.pc = "idle" /\ Len(done) = turns /\ turns < MaxTurns
    /\ tgt.result.some => tgt.result.val.ok
    /\ \E a \in ExchangeAddresses, block \in ExchangeBlocks \cup {<< >>} :
         LET write_a == Write10Command_new(a * TEST_BLOCK_LENGTH, TEST_BLOCK_LENGTH,
                                           TEST_BLOCK_LENGTH).val
         IN  /\ h2d' = TestDualChannel_out_transfer(
                          TestDualChannel_out_transfer(
                              << >>, Command_push_to_buffer(write_a, Zeros(CBW_SIZE), TRUE)),
                          block)
             /\ done' = Append(done, [name |-> "Write10", block_address |-> a,
                                      data |-> block])
    /\ d2h' = << >>
    /\ UNCHANGED << codecVars, hostVars, wire, targetVars, clearing >>

\* the test sends a Read10 of one block
ExchangeSendRead ==
    /\ tgt.pc = "idle" /\ Len(done) = turns /\ turns < MaxTurns
    /\ tgt.result.some => tgt.result.val.ok
    /\ \E a \in ExchangeAddresses :
         LET read_a == Read10Command_new(a * TEST_BLOCK_LENGTH, TEST_BLOCK_LENGTH,
                                         TEST_BLOCK_LENGTH).val
         IN  /\ h2d' = TestDualChannel_out_transfer(
                          << >>, Command_push_to_buffer(read_a, Zeros(CBW_SIZE), TRUE))
             /\ done' = Append(done, [name |-> "Read10", block_address |-> a,
                                      data |-> << >>])
    /\ d2h' = << >>
    /\ UNCHANGED << codecVars, hostVars, wire, targetVars, clearing >>

\* the test calls process_command
ExchangeRun ==
    /\ tgt.pc = "idle" /\ Len(done) = turns + 1
    /\ tgt' = process_command(tgt)
    /\ tlog' = << >>
    /\ turns' = turns + 1
    /\ UNCHANGED << codecVars, hostVars, wire, resp, queueVars >>

ExchangeInit ==
    /\ NoHost /\ NoCodec
    /\ tgt = IdleTarget
    /\ resp = TestResponder_default
    /\ tlog = << >>
    /\ turns = 0
    /\ h2d = << >> /\ d2h = << >> /\ done = << >> /\ clearing = "none"

ExchangeNext ==
    \/ ExchangeSendWrite
    \/ ExchangeSendRead
    \/ ExchangeRun
    \/ LoopTargetCbwIn
    \/ LoopTargetCallback
    \/ LoopTargetOut
    \/ LoopTargetBlockIn

ExchangeSpec == ExchangeInit /\ [][ExchangeNext]_vars

\* process_command has returned Ok from the last command the test sent
ExchangeHandled ==
    /\ Len(done) >= 1 /\ turns = Len(done)
    /\ tgt.pc = "idle" /\ tgt.result = Some(Ok(0))

\* C17: when process_command has handled a Write10 of one block at address A
\* whose block D was on the channel behind the CBW, block A of the
\* responder's storage is D; and when it has then handled a Read10 of one
\* block at A, the first 256 bytes it has put on the channel are D.
C17_WrittenBlockReadBack ==
    ExchangeHandled =>
        LET n == Len(done) IN
        /\ (done[n].name = "Write10" /\ Len(done[n].data) = TEST_BLOCK_LENGTH) =>
              StoredBlock(resp, done[n].block_address) = done[n].data
        /\ (/\ n >= 2 /\ done[n].name = "Read10"
            /\ done[n - 1].name = "Write10"
            /\ Len(done[n - 1].data) = TEST_BLOCK_LENGTH
            /\ done[n - 1].block_address = done[n].block_address) =>
              /\ Len(d2h) >= TEST_BLOCK_LENGTH
              /\ Slice(d2h, 0, TEST_BLOCK_LENGTH) = done[n - 1].data

\* a block of 0x07 written at address 1 has been read back
C17_Witness ==
    /\ ExchangeHandled /\ Len(done) >= 2
    /\ done[Len(done)].name = "Read10" /\ done[Len(done)].block_address = 1
    /\ done[Len(done) - 1].name = "Write10" /\ done[Len(done) - 1].block_address = 1
    /\ done[Len(done) - 1].data = Fill(TEST_BLOCK_LENGTH, 7)
    /\ Slice(d2h, 0, TEST_BLOCK_LENGTH) = Fill(TEST_BLOCK_LENGTH, 7)

\* the channel operations of the data phase in the log of one
\* process_command: every in_transfer but the first (the CBW) and every
\* out_transfer but the last (the CSW)
DataPhaseOps(log) ==
    LET chan == SelectSeq(log, LAMBDA e : e.op \in {"in", "out"})
    IN  IF Len(chan) < 2 THEN << >> ELSE SubSeq(chan, 2, Len(chan) - 1)

\* C33: when process_command has handled a Read10 or a Write10 on the test
\* responder, the blocks of 256 bytes it has sent (Read10) or asked the
\* channel for (Write10) before the CSW make up the CBW's
\* data_transfer_length.
C33_DataBytesMatch ==
    (ExchangeHandled /\ tgt.command.kind \in {"Read10", "Write10"}) =>
        /\ \A i \in DOMAIN DataPhaseOps(tlog) :
              DataPhaseOps(tlog)[i].op =
                 (IF tgt.command.kind = "Read10" THEN "out" ELSE "in")
        /\ Len(DataPhaseOps(tlog)) * TEST_BLOCK_LENGTH =
              tgt.cbw.val.data_transfer_length

(***************************************************************************)
(* The wire codec on its own, as the tests of commands/mod.rs use it: a    *)
(* value is pushed to a buffer of 32 bytes and pulled back from it.        *)
(***************************************************************************)
\* the buffer of the test
CodecBuffLen == CBW_SIZE + 1

\* tags and residues: 0, 1, 0x12EFCDAB, 0x90785634 and 0xFFFFFFFF (the last
\* two as the 32-bit integers with these bits)
CodecWords == {0, 1, 317705643, -1871161804, -1}
CodecStatuses == {COMMAND_PASSED, COMMAND_FAILED, PHASE_ERROR, 128, 255}
\* what the buffer holds before the value is pushed
CodecFills == {0, 170}

\* the arguments of CommandBlockWrapper::new: data_transfer_length 0, 8,
\* 0xABCDEF12 (as test_cbw) and 0xFFFFFFFF; every direction; two luns and
\* three cb_lengths
CodecCbwLengths == {0, 8, -1412567278, -1}
CodecDirections == {"IN", "OUT", "NONE"}
CodecLuns == {0, 52}
CodecCbLengths == {0, 6, 86}

\* the arguments of Read10Command::new and Write10Command::new: offsets and
\* lengths that are and are not multiples of the block size, and lengths of
\* 65536 blocks and more
CodecOffsets == {0, 512, 4096, 305419896}
CodecTransferBytes == {0, 2, 512, 1024, 65536, 131074, 33554432}
CodecBlockSizes == {1, 2, 512}

CodecAllocationLengths == 0..255
CodecSenseLengths == {0, 10, 255}

\* InquiryResponse values with the qualifier in the upper 3 bits and the
\* type in the low 5 bits
CodecQualifiers == { 32 * q : q \in 0..7 }
CodecDeviceTypes == 0..31
CodecResponseTails == { << 0, 0, 0 >>, << 86, 120, 154 >>, << 255, 7, 2 >> }

\* the two fields of a ReadCapacityResponse: 0, 1, 512, 0x23456789,
\* 0xABCDEF12 and 0xFFFFFFFF
CodecCapacityWords == {0, 1, 512, 591751049, -1412567278, -1}

CodecCommands ==
    { [val |-> InquiryCommand_new(al), args |-> << al >>] :
        al \in CodecAllocationLengths }
    \cup { [val |-> TestUnitReady_new, args |-> << >>],
           [val |-> ReadCapacityCommand_new, args |-> << >>] }
    \cup { [val |-> RequestSenseCommand_new(al), args |-> << al >>] :
        al \in CodecSenseLengths }
    \cup { [val |-> Read10Command_new(o, t, bs).val, args |-> << o, t, bs >>] :
        << o, t, bs >> \in { x \in CodecOffsets \X CodecTransferBytes \X CodecBlockSizes :
                                Read10Command_new(x[1], x[2], x[3]).ok } }
    \cup { [val |-> Write10Command_new(o, t, bs).val, args |-> << o, t, bs >>] :
        << o, t, bs >> \in { x \in CodecOffsets \X CodecTransferBytes \X CodecBlockSizes :
                                Write10Command_new(x[1], x[2], x[3]).ok } }

CodecInputs ==
    { [kind |-> "csw",
       val |-> [tag |-> t, data_residue |-> r, status |-> st],
       fill |-> f] :
        t \in CodecWords, r \in CodecWords, st \in CodecStatuses, f \in CodecFills }
    \cup
    { [kind |-> "cbw",
       val |-> CommandBlockWrapper_new(d, dir, lun, cbl),
       fill |-> f] :
        d \in CodecCbwLengths, dir \in CodecDirections, lun \in CodecLuns,
        cbl \in CodecCbLengths, f \in CodecFills }
    \cup
    { [kind |-> "cmd", val |-> c.val, args |-> c.args, fill |-> f] :
        c \in CodecCommands, f \in CodecFills }
    \cup
    { [kind |-> "inqresp",
       val |-> [device_qualifier |-> q, device_type |-> t,
                removable_flags |-> tl[1], spc_version |-> tl[2],
                response_format |-> tl[3]],
       fill |-> f] :
        q \in CodecQualifiers, t \in CodecDeviceTypes, tl \in CodecResponseTails,
        f \in CodecFills }
    \cup
    { [kind |-> "capresp",
       val |-> [logical_block_address |-> a, block_length |-> l],
       fill |-> f] :
        a \in CodecCapacityWords, l \in CodecCapacityWords, f \in CodecFills }

\* push_to_buffer of the value: the buffer it leaves and what it returns,
\* a panic when the buffer is too short for the bytes written
Codec_push(in, b, overflow_checks) ==
    LET left ==
            CASE in.kind = "csw" -> CommandStatusWrapper_push_to_buffer(in.val, b)
              [] in.kind = "cbw" -> CommandBlockWrapper_push_to_buffer(in.val, b)
              [] in.kind = "cmd" -> Command_push_to_buffer(in.val, b, overflow_checks)
              [] in.kind = "inqresp" -> InquiryResponse_push_to_buffer(in.val, b)
              [] in.kind = "capresp" -> ReadCapacityResponse_push_to_buffer(in.val, b)
        count ==
            CASE in.kind = "csw" -> 13
              [] in.kind = "cbw" -> 15
              [] in.kind = "cmd" -> Command_pushed(in.val)
              [] in.kind = "inqresp" -> 4
              [] in.kind = "capresp" -> 8
    IN  [buff |-> left,
         ret |-> IF left = Panicked THEN Err(Panic)
                 ELSE IF left = Overfull THEN Err(BufferFull)
                 ELSE Ok(count)]

\* pull_from_buffer of the command type
Command_pull_from_buffer(kind, b) ==
    CASE kind = "Inquiry" -> InquiryCommand_pull_from_buffer(b)
      [] kind = "TestUnitReady" -> TestUnitReady_pull_from_buffer(b)
      [] kind = "ReadCapacity" -> ReadCapacityCommand_pull_from_buffer(b)
      [] kind = "RequestSense" -> RequestSenseCommand_pull_from_buffer(b)
      [] kind = "Read10" -> Read10Command_pull_from_buffer(b)
      [] kind = "Write10" -> Write10Command_pull_from_buffer(b)

\* pull_from_buffer for the kind of value
Codec_pull(in, b) ==
    CASE in.kind = "csw" -> CommandStatusWrapper_pull_from_buffer(b)
      [] in.kind = "cbw" -> CommandBlockWrapper_pull_from_buffer(b)
      [] in.kind = "cmd" -> Command_pull_from_buffer(in.val.kind, b)
      [] in.kind = "inqresp" -> InquiryResponse_pull_from_buffer(b)
      [] in.kind = "capresp" -> ReadCapacityResponse_pull_from_buffer(b)

\* where, how many and to what value bytes of the encoding are changed
PatchOffsets == 0..(CBW_HEADER + 9)
PatchLens == {1, 3, 4}
PatchBytes == {0, 18, 255}

\* the test pushes the value to its buffer
CodecPush ==
    /\ input.kind # "none" /\ ~pushed.some
    /\ \E overflow_checks \in BOOLEAN :
         /\ buff' = Codec_push(input, buff, overflow_checks).buff
         /\ pushed' = Some(Codec_push(input, buff, overflow_checks).ret)
    /\ UNCHANGED << input, patch, pulled, hostVars, wire, targetVars, queueVars >>

\* bytes of an encoded wrapper or command are changed before it is decoded
CodecPatch ==
    /\ pushed.some /\ ~patch.some /\ ~pulled.some
    /\ input.kind \in {"csw", "cbw", "cmd"}
    /\ \E at \in PatchOffsets, n \in PatchLens, v \in PatchBytes :
        /\ buff' = [i \in 1..Len(buff) |->
                        IF i > at /\ i <= at + n THEN v ELSE buff[i]]
        /\ patch' = Some([at |-> at, n |-> n, byte |-> v, encoded |-> buff])
    /\ UNCHANGED << input, pushed, pulled, hostVars, wire, targetVars, queueVars >>

\* the test pulls a value from its buffer
CodecPull ==
    /\ pushed.some /\ ~pulled.some
    /\ pulled' = Some(Codec_pull(input, buff))
    /\ UNCHANGED << input, buff, pushed, patch, hostVars, wire, targetVars, queueVars >>

CodecInit ==
    /\ NoHost /\ NoTarget
    /\ input \in CodecInputs
    /\ buff = Fill(CodecBuffLen, input.fill)
    /\ pushed = None /\ patch = None /\ pulled = None

CodecNext ==
    \/ CodecPush
    \/ CodecPatch
    \/ CodecPull

CodecSpec == CodecInit /\ [][CodecNext]_vars

\* byte k (from 0, lowest first) of a u32
WordByte(w, k) == (w \div (256 ^ k)) % 256

\* C20: for every CSW, push_to_buffer returns 13 and writes 13 bytes and no
\* more: 0x55 0x53 0x42 0x53 (the signature 0x53425355, lowest byte first),
\* the tag and the data_residue each lowest byte first, then the status;
\* and pull_from_buffer on these bytes returns the CSW that was pushed.
C20_CswRoundTrip ==
    (input.kind = "csw" /\ pushed.some /\ ~patch.some) =>
        /\ pushed.val = Ok(CSW_SIZE)
        /\ Slice(buff, 0, 4) = << 85, 83, 66, 83 >>
        /\ \A k \in 0..3 :
            /\ buff[5 + k] = WordByte(input.val.tag, k)
            /\ buff[9 + k] = WordByte(input.val.data_residue, k)
        /\ buff[13] = input.val.status
        /\ \A i \in (CSW_SIZE + 1)..CodecBuffLen : buff[i] = input.fill
        /\ pulled.some => pulled.val = Ok(input.val)

\* the CSW of test_csw (tag 0x12EFCDAB, residue 0x90785634, status 0x80)
\* has been pushed as the bytes the test expects, and pulled back
C20_Witness ==
    /\ input.kind = "csw" /\ ~patch.some /\ pulled.some /\ pulled.val.ok
    /\ pulled.val.val = [tag |-> 317705643, data_residue |-> -1871161804,
                         status |-> 128]
    /\ Slice(buff, 0, CSW_SIZE)
          = << 85, 83, 66, 83, 171, 205, 239, 18, 52, 86, 120, 144, 128 >>

\* the test has pushed a value of this kind and changed no byte of it
Pushed(kind) == input.kind = kind /\ pushed.some /\ ~patch.some

\* the bytes after the first n are as they were before the push
RestUntouched(n) == \A i \in (n + 1)..CodecBuffLen : buff[i] = input.fill

\* C21: for every CBW built by CommandBlockWrapper::new with direction IN,
\* OUT or NONE, push_to_buffer returns 15 and writes 15 bytes, and
\* pull_from_buffer on these bytes returns a CBW equal to the original in
\* every field, direction included (so a CBW built with NONE decodes with
\* NONE).
C21_CbwRoundTrip ==
    Pushed("cbw") =>
        /\ pushed.val = Ok(CBW_HEADER)
        /\ RestUntouched(CBW_HEADER)
        /\ pulled.some => pulled.val = Ok(input.val)

\* the first four bytes of the buffer, read as a little-endian u32
BufferMagic == LE_read_u32(buff, 0)

\* C22: whatever the other bytes are, pull_from_buffer of a CBW (alone or as
\* the header of a command) whose first four bytes read little-endian are not
\* 0x43425355 returns FlagError with these four bytes as flags, and
\* pull_from_buffer of a CSW whose first four bytes are not 0x53425355
\* returns ParseError.
C22_BadSignature ==
    pulled.some =>
        /\ (input.kind \in {"cbw", "cmd"} /\ BufferMagic # D_CBW_SIGNATURE) =>
              pulled.val = Err(FlagError(BufferMagic))
        /\ (input.kind = "csw" /\ BufferMagic # D_CSW_SIGNATURE) =>
              pulled.val = Err(ParseError)

\* a CBW whose first byte was changed to 0xFF has been decoded: FlagError
\* with flags 0x434253FF
C22_Witness ==
    /\ input.kind = "cbw" /\ patch.some /\ pulled.some
    /\ patch.val.at = 0 /\ patch.val.n = 1 /\ patch.val.byte = 255
    /\ Slice(buff, 0, 4) = << 255, 83, 66, 67 >>
    /\ pulled.val = Err(FlagError(1128420351))

\* the test has pushed a command of this type and changed no byte of it
PushedCommand(kind) == Pushed("cmd") /\ input.val.kind = kind

\* the command block of a READ(10) or WRITE(10) as the buffer holds it: the
\* opcode at byte 15, block_address at bytes 17..21 and transfer_blocks at
\* bytes 22..24, both highest byte first
TenByteBlock(op, block_address, transfer_blocks) ==
    /\ buff[16] = op
    /\ \A k \in 0..3 : buff[18 + k] = WordByte(block_address, 3 - k)
    /\ \A k \in 0..1 : buff[23 + k] = WordByte(transfer_blocks, 1 - k)

\* C23: for every Write10Command that Write10Command::new(offset,
\* transfer_bytes, block_size) returns Ok, push_to_buffer returns 25 and
\* writes 25 bytes (opcode 0x2A at byte 15, big-endian block_address at bytes
\* 17..21, big-endian transfer_blocks at bytes 22..24, direction OUT), and
\* pull_from_buffer on these bytes returns Ok with a command equal to the
\* original in block_address, block_size and transfer_blocks.
C23_Write10RoundTrip ==
    PushedCommand("Write10") =>
        /\ pushed.val = Ok(25)
        /\ RestUntouched(25)
        /\ TenByteBlock(42, input.args[1] \div input.args[3],
                        input.val.transfer_blocks)
        /\ buff[13] = 0
        /\ pulled.some => pulled.val = Ok(input.val)

\* C24: for every Read10Command that Read10Command::new(offset,
\* transfer_bytes, block_size) returns Ok, push_to_buffer returns 25 and
\* writes 25 bytes (opcode 0x28 at byte 15, big-endian block_address =
\* offset / block_size at bytes 17..21, big-endian transfer_blocks at bytes
\* 22..24, direction IN, data_transfer_length = transfer_bytes little-endian
\* at bytes 8..12), and pull_from_buffer on these bytes returns a command
\* equal to the original.
C24_Read10RoundTrip ==
    PushedCommand("Read10") =>
        /\ pushed.val = Ok(25)
        /\ RestUntouched(25)
        /\ TenByteBlock(40, input.args[1] \div input.args[3],
                        input.val.transfer_blocks)
        /\ buff[13] = 128
        /\ \A k \in 0..3 : buff[9 + k] = WordByte(input.args[2], k)
        /\ pulled.some => pulled.val = Ok(input.val)

\* the command of test_read10, Read10Command::new(4096, 512, 512), has been
\* pushed as the 25 bytes the test expects and pulled back
C24_Witness ==
    /\ PushedCommand("Read10") /\ input.args = << 4096, 512, 512 >>
    /\ Slice(buff, 0, 25)
          = << 85, 83, 66, 67, 0, 0, 0, 0, 0, 2, 0, 0, 128, 0, 10,
               40, 0, 0, 0, 0, 8, 0, 0, 1, 0 >>
    /\ pulled.some /\ pulled.val.ok
    /\ pulled.val.val.block_address = 8 /\ pulled.val.val.transfer_blocks = 1
    /\ pulled.val.val.transfer_bytes = 512

\* C25: for every Read10Command or Write10Command that new(offset,
\* transfer_bytes, block_size) returns Ok, the data_transfer_length of the
\* CBW it pushes equals the 16-bit transfer_blocks field of its command block
\* times block_size, also when transfer_bytes / block_size is greater than
\* 65535.
C25_TransferLength ==
    (PushedCommand("Read10") \/ PushedCommand("Write10")) =>
        LE_read_u32(buff, 8) = BE_read_u16(buff, 22) * input.args[3]

\* The CBW header the buffer holds: bit 7 of the flags byte says IN
HeaderIsIn == buff[13] >= 128
HeaderCbLength == buff[15]
HeaderTransferLength == LE_read_u32(buff, 8)

\* the header in the buffer contradicts the contract of the command type:
\* its direction, its cb_length, or its data_transfer_length
HeaderContradicts(kind) ==
    \/ kind \in {"Inquiry", "ReadCapacity", "Read10"} /\ ~HeaderIsIn
    \/ kind \in {"Write10", "TestUnitReady", "RequestSense"} /\ HeaderIsIn
    \/ HeaderCbLength # length(kind)
    \/ kind = "Inquiry" /\ HeaderTransferLength # buff[20]
    \/ kind = "ReadCapacity" /\ HeaderTransferLength # 8
    \/ kind \in {"TestUnitReady", "RequestSense"} /\ HeaderTransferLength # 0

\* C26: each command's pull_from_buffer returns ParseError when the CBW
\* header (with a good signature) contradicts that command's contract: a
\* direction other than the command's (IN for INQUIRY, READ CAPACITY and
\* READ(10), OUT for WRITE(10), not IN for TEST UNIT READY and REQUEST
\* SENSE), a cb_length other than the command's, or a data_transfer_length
\* that is not allocation_length for INQUIRY, not 8 for READ CAPACITY, not 0
\* for TEST UNIT READY and REQUEST SENSE.
C26_HeaderChecked ==
    (input.kind = "cmd" /\ pulled.some /\ BufferMagic = D_CBW_SIGNATURE
        /\ HeaderContradicts(input.val.kind)) =>
        pulled.val = Err(ParseError)

\* the bytes of each command's block (cb_length bytes from byte 15) that
\* carry no field, by their index in the buffer
Padding(kind) ==
    CASE kind = "Inquiry" -> {16, 17, 18, 20}
      [] kind = "RequestSense" -> {16, 17, 18, 20}
      [] kind = "TestUnitReady" -> 16..20
      [] kind = "ReadCapacity" -> 16..30
      [] kind = "Read10" -> {16, 21, 24}
      [] kind = "Write10" -> {16, 21, 24}

\* the indices of the bytes that were changed
Patched == patch.val.at..(patch.val.at + patch.val.n - 1)

\* a command was encoded, bytes of it were changed, and it was decoded
PatchedCommandPulled == input.kind = "cmd" /\ patch.some /\ pulled.some

\* C27: for each of the six commands, changing only padding bytes of a valid
\* encoded command (bytes of the command block that carry no field) to any
\* value does not change what pull_from_buffer returns: the command decodes
\* as it did before the change.
C27_PaddingIgnored ==
    (PatchedCommandPulled /\ Patched \subseteq Padding(input.val.kind)) =>
        pulled.val = Command_pull_from_buffer(input.val.kind, patch.val.encoded)

\* C28: every command's push_to_buffer writes the command's opcode at byte
\* 15, and every command's pull_from_buffer recognises its command by byte
\* 15 alone: on a buffer that is otherwise valid for the command (the
\* encoding with, at most, byte 15 changed) it returns ParseError exactly
\* when byte 15 differs from the command's opcode.
C28_OpcodeAtByte15 ==
    /\ \A kind \in {"Inquiry", "TestUnitReady", "ReadCapacity", "RequestSense",
                    "Read10", "Write10"} :
          PushedCommand(kind) => buff[16] = opcode(kind)
    /\ (PatchedCommandPulled /\ Patched = {15}) =>
          (pulled.val = Err(ParseError) <=> buff[16] # opcode(input.val.kind))

\* C29: for every allocation_length in 0..=255, push_to_buffer of
\* InquiryCommand::new(allocation_length) returns 20 and writes 20 bytes: the
\* signature, tag 0, data_transfer_length = allocation_length, flags 0x80,
\* lun 0, cb_length 6, opcode 0x12 at byte 15, three zero bytes and
\* allocation_length at byte 19; and pull_from_buffer on these bytes returns
\* Ok with the same command.
C29_InquiryRoundTrip ==
    PushedCommand("Inquiry") =>
        LET al == input.args[1] IN
        /\ pushed.val = Ok(20)
        /\ RestUntouched(20)
        /\ Slice(buff, 0, 20)
              = << 85, 83, 66, 67, 0, 0, 0, 0, al, 0, 0, 0, 128, 0, 6,
                   18, 0, 0, 0, al >>
        /\ pulled.some => pulled.val = Ok(InquiryCommand_new(al))

\* the command of test_inquirycommand, InquiryCommand::new(5), has been
\* pushed and pulled back
C29_Witness ==
    /\ PushedCommand("Inquiry") /\ input.args = << 5 >>
    /\ pushed.val = Ok(20) /\ buff[9] = 5 /\ buff[20] = 5
    /\ pulled.some /\ pulled.val = Ok([kind |-> "Inquiry", allocation_length |-> 5])

\* C30: for every InquiryResponse whose device_qualifier lies in the upper 3
\* bits of a byte and whose device_type lies in the low 5 bits,
\* push_to_buffer returns 4 and writes 4 bytes: byte 0 with the qualifier in
\* its upper 3 bits and the type in its low 5 bits, then removable_flags,
\* spc_version and response_format; and pull_from_buffer on these bytes
\* returns a value equal to the original in all five fields.
C30_InquiryResponseRoundTrip ==
    Pushed("inqresp") =>
        /\ pushed.val = Ok(4)
        /\ RestUntouched(4)
        /\ (buff[1] \div 32) * 32 = input.val.device_qualifier
        /\ buff[1] % 32 = input.val.device_type
        /\ buff[2] = input.val.removable_flags
        /\ buff[3] = input.val.spc_version
        /\ buff[4] = input.val.response_format
        /\ pulled.some => pulled.val = Ok(input.val)

\* the response of test_inquiryresponse (qualifier 0xA0, type 0x0B, then
\* 0x56, 0x78, 0x9A) has been pushed as AB 56 78 9A and pulled back
C30_Witness ==
    /\ Pushed("inqresp")
    /\ Slice(buff, 0, 4) = << 171, 86, 120, 154 >>
    /\ pulled.some /\ pulled.val.ok
    /\ pulled.val.val.device_qualifier = 160 /\ pulled.val.val.device_type = 11
    /\ pulled.val.val.removable_flags = 86 /\ pulled.val.val.spc_version = 120
    /\ pulled.val.val.response_format = 154

\* C31: for every ReadCapacityResponse, push_to_buffer returns 8 and writes
\* exactly 8 bytes, the logical_block_address and then the block_length, each
\* highest byte first; and pull_from_buffer on these bytes returns a value
\* equal to the original.
C31_CapacityResponseRoundTrip ==
    Pushed("capresp") =>
        /\ pushed.val = Ok(8)
        /\ RestUntouched(8)
        /\ \A k \in 0..3 :
            /\ buff[1 + k] = WordByte(input.val.logical_block_address, 3 - k)
            /\ buff[5 + k] = WordByte(input.val.block_length, 3 - k)
        /\ pulled.some => pulled.val = Ok(input.val)

\* the response of test_readcapacityresponse (0xABCDEF12, 0x23456789) has
\* been pushed as AB CD EF 12 23 45 67 89 and pulled back
C31_Witness ==
    /\ Pushed("capresp")
    /\ Slice(buff, 0, 8) = << 171, 205, 239, 18, 35, 69, 103, 137 >>
    /\ pulled.some
    /\ pulled.val = Ok([logical_block_address |-> -1412567278,
                        block_length |-> 591751049])

====
